---- MODULE Spec2Model ----
(***************************************************************************)
(* proxysql-agent: the shutdown orchestrator (sync.Once guard, shutdown    *)
(* phase, drain wait), the membership reconciler's join and leave          *)
(* procedures and the satellite resync, as concurrent tasks sharing one    *)
(* control connection (p.conn) and one shutdown phase (p.shutdownPhase).   *)
(*                                                                         *)
(* Sources: internal/proxysql/proxysql.go  (src/unnamed/part_006),         *)
(*          internal/proxysql/satellite.go (src/unnamed/part_007:271-664), *)
(*          src/internal/proxysql/core.go:1-345,                           *)
(*          src/internal/restapi/restapi.go,                               *)
(*          src/internal/configuration/configuration.go:341-356.           *)
(***************************************************************************)
EXTENDS Integers, Sequences, FiniteSets, TLC

\* ------------------------------------------------------------------ bounds
NumCallers == 2          \* concurrent POST /shutdown requests
MaxClients == 1          \* Client_Connections_connected ranges over 0..MaxClients
MaxDrainTimeout == 3     \* shutdown.drain_timeout ranges over 0..MaxDrainTimeout (s)
MaxBackends == 3         \* rows of runtime_mysql_servers range over 0..MaxBackends
MaxCalls == 2            \* procedures called one after another or overlapping
MaxPods == 3             \* pods a poll of the API server lists: 0..MaxPods
MaxShutdownTimeout == 3  \* shutdown.shutdown_timeout ranges over 0..MaxShutdownTimeout (s)

\* ------------------------------------------------------- program constants
TickSeconds == 2         \* time.NewTicker(2 * time.Second)
PreStopTimeout == 10     \* context.WithTimeout(context.Background(), 10*time.Second)

VARIABLES
    mode,            \* settings.RunMode: "core" | "satellite"
    address,         \* settings.ProxySQL.Address, split on ":"
    drainTimeout,    \* settings.Shutdown.DrainTimeout (seconds)
    shutdownTimeout, \* settings.Shutdown.ShutdownTimeout (seconds)
    phase,           \* p.shutdownPhase
    conn,            \* p.conn: "open" | "closed" (Close() called) | "nil"
    httpServer,      \* p.httpServer: "nil" | "set" | "stopped"
    drainFile,       \* TRUE iff settings.Shutdown.DrainingFile exists
    once,            \* p.shutdownOnce: "idle" | "running" | "done"
    onceRunner,      \* the task whose closure shutdownOnce runs, or NoTask
    ctxCancelled,    \* the operating context (main's ctx) is cancelled
    pc,              \* position of every task
    ret,             \* what a shutdown trigger returned: "none" | "nil" | "err"
    shutLog,         \* the shutdown steps executed so far, in order
    now,             \* seconds since gracefulShutdown created shutdownCtx
    drainChecks,     \* ProbeClients calls made by waitForConnectionDrain
    waitReason,      \* why waitForConnectionDrain returned
    clients,         \* the proxy's connected-client count
    seen,            \* client counts seen between the trigger and the end of the wait
    proc,            \* the reconciliation procedure each task is running
    store,           \* the rows of the proxy's proxysql_servers table
    runtime,         \* the rows the proxy has loaded to runtime
    hostname,        \* what os.Hostname() returns: [err, name]
    member,          \* lifecycle phase of each member as the informer last delivered it
    event,           \* the notification the reconciler's current callback handles
    began,           \* the table and the procedures as they stood when each task's
                     \* procedure was called
    backends,        \* the proxy's runtime_mysql_servers counts: [total, online, shunned]
    probe,           \* the RunProbes call in progress and the result of the last one
    poll             \* the poll-based path: the pods listed, the slice as it
                     \* stands, the command batch built from it

vars == <<mode, address, drainTimeout, shutdownTimeout, phase, conn, httpServer,
          drainFile, once, onceRunner, ctxCancelled, pc, ret, shutLog, now,
          drainChecks, waitReason, clients, seen, proc, store, runtime, hostname,
          member, event, began, backends, probe, poll>>

settingsVars == <<mode, address, drainTimeout, shutdownTimeout, hostname>>
waitVars == <<now, drainChecks, waitReason>>
storeVars == <<store, runtime>>
feedVars == <<member, event, began>>
probeVars == <<backends, probe>>
\* everything but the tasks' positions, their procedures and the feed
restVars == <<probeVars, poll, settingsVars, storeVars, phase, conn, httpServer, drainFile, once,
              onceRunner, ctxCancelled, ret, shutLog, waitVars, clients, seen>>

\* ------------------------------------------------------------------- tasks
Main == <<"main", 0>>
Callers == {<<"http", i>> : i \in 1..NumCallers}
\* the informer runs the callbacks of one registered handler one at a time
\* (core.go:138-142): one reconciler task
Recon == <<"recon", 0>>
\* a second goroutine running the procedures, as the overlapping procedures of
\* the concurrency notes need; no handler of this program runs on it
Recon2 == <<"recon", 1>>
ReconTasks == {Recon, Recon2}
ShutTasks == Callers \cup {Main}
ProcTasks == ReconTasks \cup {Main}
Tasks == Callers \cup ReconTasks \cup {Main}
NoTask == <<"none", 0>>

\* ------------------------------------------------------------------ phases
PhaseRunning == "Running"
PhaseDraining == "Draining"
PhaseStopping == "Stopping"
PhaseStopped == "Stopped"

ShutdownPhase == {PhaseRunning, PhaseDraining, PhaseStopping, PhaseStopped}

\* the iota order of the ShutdownPhase constants
PhaseOrd(p) ==
    CASE p = PhaseRunning -> 0
      [] p = PhaseDraining -> 1
      [] p = PhaseStopping -> 2
      [] p = PhaseStopped -> 3

IsShuttingDown == phase # PhaseRunning

\* ------------------------------------------------------------ configuration
\* settings.ProxySQL.Address as strings.Split(address, ":") sees it: one entry
\* per part, recording whether strconv.Atoi accepts the part and its value.
HostPart == [digits |-> FALSE, val |-> 0]
PortPart == [digits |-> TRUE, val |-> 6032]
AddrV4 == <<HostPart, PortPart>>                       \* "127.0.0.1:6032"
AddrV6 == <<HostPart, HostPart, HostPart, PortPart>>   \* "[::1]:6032"
Addresses == {AddrV4, AddrV6}

ClusterPort(addr) ==
    IF Len(addr) # 2
    THEN [err |-> TRUE, port |-> 0]
    ELSE IF ~addr[2].digits
         THEN [err |-> TRUE, port |-> 0]
         ELSE [err |-> FALSE, port |-> addr[2].val]

\* -------------------------------------------------------------------- pods
Pods == { [name |-> "m1", ip |-> "10.0.0.5", component |-> "core"],
          [name |-> "s1", ip |-> "10.0.0.9", component |-> "satellite"] }
NoPod == [name |-> "", ip |-> "", component |-> ""]

\* the members the informer's label selector matches: the process's own pod
\* m1, a second primary-role pod and a secondary-role pod
Members == Pods \cup { [name |-> "m2", ip |-> "10.0.0.6", component |-> "core"] }

\* pod.Status.Phase; "none" stands for a member the informer has not delivered
\* or has delivered as deleted
PodPhases == {"Pending", "Running", "Succeeded", "Failed"}

\* the pod object of a notification: Status.PodIP is set while the pod runs
\* and empty before and after (the table at core.go:208-210)
PodAt(pod, ph) == [pod EXCEPT !.ip = IF ph = "Running" THEN pod.ip ELSE ""]

\* ---------------------------------------------------------------- commands
\* A statement is <<verb, text>> followed, for INSERT, by port, weight, comment.
\* a first statement that empties the table
DeleteEveryServer == <<"DELETE FROM proxysql_servers", "">>

\* the first statement of addPodToCluster (core.go:260)
DeletePlaceholder == <<"DELETE FROM proxysql_servers WHERE hostname =", "proxysql-core">>
InsertServer(ip, port, name) == <<"INSERT INTO proxysql_servers VALUES", ip, port, 0, name>>
DeleteServer(ip) == <<"DELETE FROM proxysql_servers WHERE hostname =", ip>>
DeleteAllServers == <<"DELETE FROM proxysql_servers", "">>
LoadFromConfig == <<"LOAD PROXYSQL SERVERS FROM CONFIG", "">>
LoadToRuntime(what) == <<"LOAD TO RUNTIME", what>>

RuntimeLoads ==
    << LoadToRuntime("PROXYSQL SERVERS"),
       LoadToRuntime("ADMIN VARIABLES"),
       LoadToRuntime("MYSQL VARIABLES"),
       LoadToRuntime("MYSQL SERVERS"),
       LoadToRuntime("MYSQL USERS"),
       LoadToRuntime("MYSQL QUERY RULES") >>

\* an addPodToCluster that inserts the member's row before it deletes the
\* placeholder row
addPodCommandsInsertFirst(pod, addr) ==
    IF pod.component = "core"
    THEN LET cp == ClusterPort(addr) IN
         IF cp.err
         THEN [err |-> TRUE, cmds |-> <<>>]
         ELSE [err |-> FALSE,
               cmds |-> <<InsertServer(pod.ip, cp.port, pod.name), DeletePlaceholder>>
                        \o RuntimeLoads]
    ELSE [err |-> FALSE, cmds |-> <<DeletePlaceholder>> \o RuntimeLoads]

\* the command list addPodToCluster builds (core.go:260-279)
addPodCommands(pod, addr) ==
    IF pod.component = "core"
    THEN LET cp == ClusterPort(addr) IN
         IF cp.err
         THEN [err |-> TRUE, cmds |-> <<>>]
         ELSE [err |-> FALSE,
               cmds |-> <<DeletePlaceholder, InsertServer(pod.ip, cp.port, pod.name)>>
                        \o RuntimeLoads]
    ELSE [err |-> FALSE, cmds |-> <<DeletePlaceholder>> \o RuntimeLoads]

\* a removePodFromCluster that deletes the row whatever the member's role
removePodCommandsAlwaysDelete(pod) == <<DeleteServer(pod.ip)>> \o RuntimeLoads

\* the command list removePodFromCluster builds (core.go:314-327)
removePodCommands(pod) ==
    IF pod.component = "core"
    THEN <<DeleteServer(pod.ip)>> \o RuntimeLoads
    ELSE RuntimeLoads

\* a resync that pushes to runtime before it reloads the server list
resyncCommandsPushFirst ==
    <<DeleteAllServers, LoadToRuntime("PROXYSQL SERVERS"), LoadFromConfig>>

\* the command list SatelliteResync runs (satellite.go:394-398)
resyncCommands == <<DeleteAllServers, LoadFromConfig, LoadToRuntime("PROXYSQL SERVERS")>>

\* ----------------------------------------------------------- topology store
\* The proxy's proxysql_servers table as the statements above address it: one
\* row per (hostname, port), the key of the table, with weight and comment.
Row(ip, port, name) == [hostname |-> ip, port |-> port, weight |-> 0, comment |-> name]

\* the row the proxy's configuration file declares: the cluster service name
\* the statement of core.go:260 deletes
PlaceholderRow == Row("proxysql-core", 6032, "")
ConfigServers == {PlaceholderRow}

RowKey(r) == <<r.hostname, r.port>>

\* the proxy rejects an INSERT whose key is already in the table
Rejects(cmd, mem) ==
    /\ cmd[1] = "INSERT INTO proxysql_servers VALUES"
    /\ \E r \in mem : RowKey(r) = <<cmd[2], cmd[3]>>

\* a proxy whose DELETE ignores the WHERE clause
ApplyMemIgnoringWhere(cmd, mem) ==
    CASE cmd[1] = "DELETE FROM proxysql_servers WHERE hostname =" -> {}
      [] cmd[1] = "INSERT INTO proxysql_servers VALUES" ->
            mem \cup {[hostname |-> cmd[2], port |-> cmd[3], weight |-> cmd[4],
                       comment |-> cmd[5]]}
      [] cmd[1] = "DELETE FROM proxysql_servers" -> {}
      [] cmd[1] = "LOAD PROXYSQL SERVERS FROM CONFIG" -> ConfigServers
      [] OTHER -> mem

\* the table after the proxy has executed a statement
ApplyMem(cmd, mem) ==
    CASE cmd[1] = "DELETE FROM proxysql_servers WHERE hostname =" ->
            {r \in mem : r.hostname # cmd[2]}
      [] cmd[1] = "INSERT INTO proxysql_servers VALUES" ->
            mem \cup {[hostname |-> cmd[2], port |-> cmd[3], weight |-> cmd[4],
                       comment |-> cmd[5]]}
      [] cmd[1] = "DELETE FROM proxysql_servers" -> {}
      [] cmd[1] = "LOAD PROXYSQL SERVERS FROM CONFIG" -> ConfigServers
      [] OTHER -> mem

\* the runtime copy after the proxy has executed a statement
ApplyRun(cmd, mem, run) ==
    IF cmd = LoadToRuntime("PROXYSQL SERVERS") THEN mem ELSE run

\* ------------------------------------------------------- poll-based path
\* pod.Status.PodIP as the bytes of the Go string: the digits and the dot
Dot == 46
Digit(d) == 48 + d
IpPrefix == <<Digit(1), Digit(0), Dot, Digit(0), Dot, Digit(0), Dot>>    \* "10.0.0."
Ip5 == IpPrefix \o <<Digit(5)>>                                          \* "10.0.0.5"
Ip9 == IpPrefix \o <<Digit(9)>>                                          \* "10.0.0.9"
Ip10 == IpPrefix \o <<Digit(1), Digit(0)>>                               \* "10.0.0.10"
IpNone == <<>>                                                           \* "": no address yet

\* PodInfo (core.go:366-370) of the pods a List call can return: pod names
\* are unique, a pod that is not running yet has no address
PodInfos ==
    { [PodIP |-> Ip5, Hostname |-> "core-0"],
      [PodIP |-> Ip9, Hostname |-> "core-1"],
      [PodIP |-> Ip10, Hostname |-> "core-2"],
      [PodIP |-> IpNone, Hostname |-> "core-3"],
      [PodIP |-> IpNone, Hostname |-> "core-4"] }

\* the slices GetCorePods can return (core.go:446-471): the matching pods in
\* the order the API server lists them
PodLists ==
    UNION { {l \in [1..n -> PodInfos] : \A i, j \in 1..n : l[i] = l[j] => i = j} :
            n \in 0..MaxPods }

\* Go's < on strings: byte-wise lexicographic, a proper prefix comes first
RECURSIVE StringLess(_, _)
StringLess(a, b) ==
    IF b = <<>> THEN FALSE
    ELSE IF a = <<>> THEN TRUE
    ELSE IF Head(a) # Head(b) THEN Head(a) < Head(b)
    ELSE StringLess(Tail(a), Tail(b))

\* a sort that puts the greatest address first
ByPodIPDescending(a, b) == StringLess(b.PodIP, a.PodIP)

\* ByPodIP.Less (core.go:377)
ByPodIP(a, b) == StringLess(a.PodIP, b.PodIP)

\* sort.Sort(ByPodIP(pods)): a rearrangement of the slice in which no element
\* is less than one before it; sort.Sort is not stable, so pods with equal
\* addresses may end in either order
SortByPodIP(pods) ==
    LET n == Len(pods)
        perms == {f \in [1..n -> 1..n] : \A i, j \in 1..n : f[i] = f[j] => i = j}
    IN {s \in {[i \in 1..n |-> pods[f[i]]] : f \in perms} :
           \A i, j \in 1..n : i < j => ~ByPodIP(s[j], s[i])}

\* createCommands (core.go:485-506) on the sorted slice
createCommands(sorted) ==
    <<DeleteAllServers>>
    \o [i \in 1..Len(sorted) |-> InsertServer(sorted[i].PodIP, 6032, sorted[i].Hostname)]
    \o RuntimeLoads

\* calculateChecksum (core.go:473-483): the pods' PodIP:Hostname:UID strings,
\* sorted, so the digest is the same for every order of the same pods
calculateChecksum(pods) == {pods[i] : i \in 1..Len(pods)}

\* the content of /tmp/pods-cs.txt before the first write: ReadFile fails and
\* old is ""
NoDigest == {[PodIP |-> IpNone, Hostname |-> ""]}

\* a poll cycle: the pods as listed, the slice as it stands, the batch built
\* from it, where coreLoop stands, the next command, whether a command of the
\* batch has failed, and the digest in the checksum file
NewPoll(l, watermark) ==
    [listed |-> l, pods |-> l, commands |-> <<>>, step |-> "listed", idx |-> 0,
     failed |-> FALSE, watermark |-> watermark]

NoPoll == NewPoll(<<>>, NoDigest)

\* ------------------------------------------------------ control connection
\* (*sql.DB).ExecContext / QueryRowContext on p.conn. A nil handle panics; the
\* read of p.conn is not synchronised with gracefulShutdown's write, so a task
\* may also still hold the closed handle. A done context fails before the
\* statement is sent; a closed DB fails with "sql: database is closed";
\* otherwise the statement is sent and the proxy answers ok or with an error.
ExecOutcomes(ctxDone) ==
    IF conn = "nil" THEN {"panic", "dberr"}
    ELSE IF ctxDone THEN {"ctxerr"}
    ELSE IF conn = "closed" THEN {"dberr"}
    ELSE {"ok", "fail"}

Sent(o) == o \in {"ok", "fail"}

\* ProbeClients (proxysql.go:173-193): the possible (clients, err) results
ProbeClients ==
    IF conn = "nil" \/ IsShuttingDown
    THEN {[clients |-> 0, err |-> FALSE, queried |-> FALSE]}
    ELSE {[clients |-> IF o = "ok" THEN clients ELSE -1,
           err |-> o # "ok", queried |-> Sent(o)] : o \in ExecOutcomes(FALSE)}

\* ------------------------------------------------------------------ probes
\* what the three COUNT(*) queries of probeBackends count (proxysql.go:280-301);
\* every backend is taken to be ONLINE or SHUNNED
BackendStates ==
    {b \in [total : 0..MaxBackends, online : 0..MaxBackends, shunned : 0..MaxBackends] :
        b.online + b.shunned = b.total}

AllOnline == [total |-> MaxBackends, online |-> MaxBackends, shunned |-> 0]

\* the request a health endpoint is serving: the handler, where it stands, the
\* ProbeResult, the number of statements sent for it, the phase RunProbes was
\* entered in, the status code of the reply and the phase it was written in
NoProbe == [handler |-> "none", step |-> "idle", total |-> 0, online |-> 0,
            shunned |-> 0, clients |-> 0, draining |-> FALSE, status |-> "",
            message |-> "", queries |-> 0, entered |-> "", code |-> 0,
            replied |-> ""]

\* a request has been answered (or its handler has panicked, which net/http
\* recovers from) and the next one can be served
Answered == {"idle", "done", "error", "refused", "pinged", "crashed"}

\* processResults (proxysql.go:151-171): the switch takes the first case that
\* holds
processResults(results) ==
    IF results.online > results.total
    THEN [results EXCEPT !.status = "ok", !.message = "some backends offline"]
    ELSE IF results.online = 0
    THEN [results EXCEPT !.status = "unhealthy", !.message = "all backends offline"]
    ELSE IF results.draining
    THEN [results EXCEPT !.status = "draining", !.message = "draining traffic"]
    ELSE [results EXCEPT !.status = "ok", !.message = "all backends online"]

\* ------------------------------------------------------------ shutdown log
LogEntry(step, arg, actor, res) == [step |-> step, arg |-> arg, actor |-> actor, res |-> res]

Count(step) == Cardinality({i \in 1..Len(shutLog) : shutLog[i].step = step})
CountArg(step, arg) ==
    Cardinality({i \in 1..Len(shutLog) : shutLog[i].step = step /\ shutLog[i].arg = arg})

IsPhase(e) == e.step = "setShutdownPhase"
PhaseHist == [i \in 1..Len(SelectSeq(shutLog, IsPhase)) |-> SelectSeq(shutLog, IsPhase)[i].arg]

\* ------------------------------------------------------------ procedures
\* the error a procedure returns: fmt.Errorf("failed to execute command '%s':
\* %w", command, err) carries the command text and wraps the driver's error
NoErr == [cmd |-> <<>>, wraps |-> "none"]
CommandErr(cmd, o) == [cmd |-> cmd, wraps |-> o]

NoProc == [kind |-> "none", pod |-> NoPod, cmds |-> <<>>, idx |-> 0,
           issued |-> <<>>, outcome |-> "none", err |-> NoErr, missing |-> -1]

NewProc(kind, pod, cmds, outcome) ==
    [kind |-> kind, pod |-> pod, cmds |-> cmds, idx |-> 1, issued |-> <<>>,
     outcome |-> outcome, err |-> NoErr, missing |-> -1]

\* what a procedure hands to its caller for each way it can end: nil when it
\* ran to its end, when it was skipped at entry and when a step's check found
\* shutdown begun; an error when a command or the cluster port failed
ProcReturn(outcome) ==
    IF outcome \in {"ok", "skipped", "aborted"} THEN "nil"
    ELSE IF outcome \in {"failed", "porterr"} THEN "err"
    ELSE "none"

Min(a, b) == IF a < b THEN a ELSE b

\* ------------------------------------------------------------------- feed
\* os.Hostname(): the name of the process's own pod, or an error
OwnHostname == [err |-> FALSE, name |-> "m1"]
NoHostname == [err |-> TRUE, name |-> ""]

\* the notification a callback handles; clean records that every procedure and
\* query of the earlier callbacks ran to its end without a failure
NoEvent == [type |-> "none", pod |-> NoPod, old |-> "none", new |-> "none",
            queried |-> FALSE, qerr |-> FALSE, count |-> -1, clean |-> TRUE]

NewEvent(type, pod, old, new, t) ==
    [type |-> type, pod |-> pod, old |-> old, new |-> new,
     queried |-> FALSE, qerr |-> FALSE, count |-> -1,
     clean |-> event.clean /\ ~event.qerr /\ proc[t].outcome \in {"none", "ok"}]

\* what is remembered of a procedure's call: the table and its runtime copy at
\* the call, the procedure called last before it and whether that one ran with
\* every other task idle, whether every other task was idle at this call, and
\* which task called last
Summary(p) == [kind |-> p.kind, pod |-> p.pod, outcome |-> p.outcome]

NoBegan == [mem |-> [t \in ReconTasks |-> ConfigServers],
            run |-> [t \in ReconTasks |-> ConfigServers],
            prev |-> [t \in ReconTasks |-> Summary(NoProc)],
            alone |-> [t \in ReconTasks |-> FALSE],
            calls |-> 0,
            before |-> [t \in ReconTasks |-> NoTask],
            quiet |-> [t \in ReconTasks |-> TRUE],
            last |-> NoTask]

Began(t) ==
    [mem |-> [began.mem EXCEPT ![t] = store],
     run |-> [began.run EXCEPT ![t] = runtime],
     prev |-> [began.prev EXCEPT ![t] = IF began.last = NoTask THEN Summary(NoProc)
                                        ELSE Summary(proc[began.last])],
     alone |-> [began.alone EXCEPT ![t] = began.last # NoTask /\ began.quiet[began.last]],
     calls |-> began.calls + 1,
     before |-> [began.before EXCEPT ![t] = began.last],
     quiet |-> [began.quiet EXCEPT ![t] = \A u \in ReconTasks \ {t} : pc[u] = "idle"],
     last |-> t]

\* ------------------------------------------------------------------- Init
\* the state New leaves (proxysql.go:79-87), main having registered the HTTP
\* server or not (SetHTTPServer), before Core or Satellite starts
InitState ==
    /\ phase = PhaseRunning
    /\ conn = "open"
    /\ drainFile = FALSE
    /\ once = "idle"
    /\ onceRunner = NoTask
    /\ ctxCancelled = FALSE
    /\ pc = [t \in Tasks |-> IF t = Main THEN "loop" ELSE "idle"]
    /\ ret = [t \in ShutTasks |-> "none"]
    /\ shutLog = <<>>
    /\ now = 0
    /\ drainChecks = 0
    /\ waitReason = "none"
    /\ seen = {}
    /\ proc = [t \in ProcTasks |-> NoProc]
    /\ store = ConfigServers
    /\ runtime = ConfigServers
    /\ member = [n \in {m.name : m \in Members} |-> "none"]
    /\ event = NoEvent
    /\ began = NoBegan
    /\ backends = AllOnline
    /\ probe = NoProbe
    /\ poll = NoPoll

\* the shutdown triggers under every shutdown setting
Init ==
    /\ mode \in {"core", "satellite"}
    /\ address = AddrV4
    /\ drainTimeout \in 0..MaxDrainTimeout
    /\ shutdownTimeout \in 0..MaxShutdownTimeout
    /\ httpServer \in {"nil", "set"}
    /\ clients \in 0..MaxClients
    /\ hostname = OwnHostname
    /\ InitState

\* the reconciler and the resync under every address, with the largest
\* shutdown settings; neither reads the client count
InitRecon ==
    /\ mode \in {"core", "satellite"}
    /\ address \in Addresses
    /\ drainTimeout = MaxDrainTimeout
    /\ shutdownTimeout = MaxShutdownTimeout
    /\ httpServer = "set"
    /\ clients = 0
    /\ hostname = OwnHostname
    /\ InitState

\* ------------------------------------------------------- shutdown sequence
\* a guard that lets every caller run the closure (no sync.Once)
OnceFreeUnguarded(o) == o \in {"idle", "running", "done"}

\* sync.Once: Do runs the closure only for the first caller
OnceFree(o) == o = "idle"

\* the context a trigger passes to startDraining and gracefulShutdown: the
\* operating context, already cancelled, on the cancellation path
\* (satellite.go:300-313, core.go:78-91); a fresh 10 s context on the HTTP
\* path (restapi.go:239)
TriggerCtxDone(t) == t = Main

\* shutdownCtx = context.WithTimeout(ctx, shutdownTimeout): the second at
\* which it is done, counted from its creation
Deadline(t) == IF TriggerCtxDone(t) THEN 0 ELSE Min(PreStopTimeout, shutdownTimeout)
ShutdownCtxDone(t) == now >= Deadline(t)

\* the closures of PreStopShutdown and Satellite return when startDraining
\* fails; the closure of Core goes on to gracefulShutdown
AbortsOnDrainError(t) == t \in Callers \/ mode = "satellite"

\* a trigger that answers "already shutting down" with an error when it did not
\* run the sequence itself
ReturnedAlreadyShuttingDown(t, err) ==
    IF t = Main /\ mode = "core" THEN "nil"
    ELSE IF t # onceRunner THEN "err" ELSE err

\* what the trigger hands to its caller: PreStopShutdown and Satellite return
\* shutdownErr, Core drops it and returns nil (core.go:150)
Returned(t, err) == IF t = Main /\ mode = "core" THEN "nil" ELSE err

\* POST /shutdown -> preStopHandler -> PreStopShutdown -> shutdownOnce.Do, and
\* case <-ctx.Done() of Satellite / of Core's goroutine -> shutdownOnce.Do.
\* A caller that arrives while the closure runs blocks until it has returned.
OnceDo(t) ==
    /\ \/ t \in Callers /\ pc[t] = "idle"
       \/ t = Main /\ pc[t] = "loop" /\ ctxCancelled
    /\ IF OnceFree(once)
       THEN /\ once' = "running"
            /\ onceRunner' = t
            /\ pc' = [pc EXCEPT ![t] = "startDraining"]
            /\ seen' = {clients}
            /\ ret' = ret
       ELSE /\ once = "done"
            /\ pc' = [pc EXCEPT ![t] = "done"]
            /\ ret' = [ret EXCEPT ![t] = Returned(t, "nil")]
            /\ UNCHANGED <<once, onceRunner, seen>>
    /\ UNCHANGED <<probeVars, feedVars, poll, settingsVars, storeVars, phase, conn, httpServer, drainFile, ctxCancelled,
                   shutLog, waitVars, clients, proc>>

\* a setShutdownPhase that resets the phase to its zero value on completion
setShutdownPhaseReset(t, p) ==
    /\ phase' = IF p = PhaseStopped THEN PhaseRunning ELSE p
    /\ shutLog' = Append(shutLog, LogEntry("setShutdownPhase", p, t, "ok"))

\* setShutdownPhase (proxysql.go:209-222)
setShutdownPhase(t, p) ==
    /\ phase' = p
    /\ shutLog' = Append(shutLog, LogEntry("setShutdownPhase", p, t, "ok"))

\* a startDraining that creates the file and pauses without recording the
\* Draining phase first
StartDrainingKeepsPhase(t) ==
    /\ pc[t] = "startDraining"
    /\ pc' = [pc EXCEPT ![t] = "createDrainFile"]
    /\ UNCHANGED <<probeVars, feedVars, poll, settingsVars, storeVars, phase, conn, httpServer, drainFile, once, onceRunner,
                   ctxCancelled, ret, shutLog, waitVars, clients, seen, proc>>

\* startDraining, line 245
StartDrainingPhase(t) ==
    /\ pc[t] = "startDraining"
    /\ setShutdownPhase(t, PhaseDraining)
    /\ pc' = [pc EXCEPT ![t] = "createDrainFile"]
    /\ UNCHANGED <<probeVars, feedVars, poll, settingsVars, storeVars, conn, httpServer, drainFile, once, onceRunner,
                   ctxCancelled, ret, waitVars, clients, seen, proc>>

\* startDraining, lines 247-254: os.Create(drainFile) succeeds or fails
StartDrainingFile(t) ==
    /\ pc[t] = "createDrainFile"
    /\ \E ok \in BOOLEAN :
         /\ shutLog' = Append(shutLog, LogEntry("createDrainFile", "", t,
                                                IF ok THEN "ok" ELSE "fail"))
         /\ IF ok
            THEN /\ drainFile' = TRUE
                 /\ pc' = [pc EXCEPT ![t] = "pause"]
                 /\ UNCHANGED <<once, ret>>
            ELSE /\ drainFile' = drainFile
                 /\ IF AbortsOnDrainError(t)
                    THEN /\ once' = "done"
                         /\ pc' = [pc EXCEPT ![t] = "done"]
                         /\ ret' = [ret EXCEPT ![t] = Returned(t, "err")]
                    ELSE /\ pc' = [pc EXCEPT ![t] = "waitForConnectionDrain"]
                         /\ UNCHANGED <<once, ret>>
    /\ UNCHANGED <<probeVars, feedVars, poll, settingsVars, storeVars, phase, conn, httpServer, onceRunner, ctxCancelled,
                   waitVars, clients, seen, proc>>

\* startDraining, lines 256-269: PROXYSQL PAUSE; its failure is only logged
StartDrainingPause(t) ==
    /\ pc[t] = "pause"
    /\ \E o \in ExecOutcomes(TriggerCtxDone(t)) :
         /\ shutLog' = Append(shutLog, LogEntry("exec", "PROXYSQL PAUSE", t, o))
         /\ pc' = [pc EXCEPT ![t] = IF o = "panic" THEN "crashed"
                                    ELSE "waitForConnectionDrain"]
    /\ UNCHANGED <<probeVars, feedVars, poll, settingsVars, storeVars, phase, conn, httpServer, drainFile, once, onceRunner,
                   ctxCancelled, ret, waitVars, clients, seen, proc>>

\* waitForConnectionDrain (satellite.go:556-594), one iteration of its select:
\* the context's deadline and the next ticker tick race; the earlier one wins,
\* either may win when they fall together.
WaitDeadline(t) ==
    /\ pc[t] = "waitForConnectionDrain"
    /\ Deadline(t) <= now + TickSeconds
    /\ now' = IF Deadline(t) > now THEN Deadline(t) ELSE now
    /\ waitReason' = "deadline"
    /\ pc' = [pc EXCEPT ![t] = "setStopping"]
    /\ UNCHANGED <<probeVars, feedVars, poll, settingsVars, storeVars, phase, conn, httpServer, drainFile, once, onceRunner,
                   ctxCancelled, ret, shutLog, drainChecks, clients, seen, proc>>

WaitTick(t) ==
    /\ pc[t] = "waitForConnectionDrain"
    /\ now + TickSeconds <= Deadline(t)
    /\ now' = now + TickSeconds
    /\ IF now' >= drainTimeout
       THEN /\ waitReason' = "timeout"
            /\ pc' = [pc EXCEPT ![t] = "setStopping"]
            /\ UNCHANGED drainChecks
       ELSE \E r \in ProbeClients :
              /\ drainChecks' = drainChecks + 1
              /\ IF ~r.err /\ r.clients = 0
                 THEN /\ waitReason' = "drained"
                      /\ pc' = [pc EXCEPT ![t] = "setStopping"]
                 ELSE UNCHANGED <<waitReason, pc>>
    /\ UNCHANGED <<probeVars, feedVars, poll, settingsVars, storeVars, phase, conn, httpServer, drainFile, once, onceRunner,
                   ctxCancelled, ret, shutLog, clients, seen, proc>>

\* a gracefulShutdown that goes on to close the connection without recording
\* the Stopping phase
GracefulStoppingKeepsPhase(t) ==
    /\ pc[t] = "setStopping"
    /\ pc' = [pc EXCEPT ![t] = "shutdownSlow"]
    /\ UNCHANGED <<probeVars, feedVars, poll, settingsVars, storeVars, phase, conn, httpServer, drainFile, once, onceRunner,
                   ctxCancelled, ret, shutLog, waitVars, clients, seen, proc>>

\* gracefulShutdown, line 612
GracefulStopping(t) ==
    /\ pc[t] = "setStopping"
    /\ setShutdownPhase(t, PhaseStopping)
    /\ pc' = [pc EXCEPT ![t] = "shutdownSlow"]
    /\ UNCHANGED <<probeVars, feedVars, poll, settingsVars, storeVars, conn, httpServer, drainFile, once, onceRunner,
                   ctxCancelled, ret, waitVars, clients, seen, proc>>

\* gracefulShutdown, lines 615-629: PROXYSQL SHUTDOWN SLOW under shutdownCtx
GracefulShutdownSlow(t) ==
    /\ pc[t] = "shutdownSlow"
    /\ IF conn # "nil"
       THEN \E o \in ExecOutcomes(ShutdownCtxDone(t)) :
              /\ shutLog' = Append(shutLog, LogEntry("exec", "PROXYSQL SHUTDOWN SLOW", t, o))
              /\ pc' = [pc EXCEPT ![t] = "closeConn"]
       ELSE /\ pc' = [pc EXCEPT ![t] = "httpShutdown"]
            /\ UNCHANGED shutLog
    /\ UNCHANGED <<probeVars, feedVars, poll, settingsVars, storeVars, phase, conn, httpServer, drainFile, once, onceRunner,
                   ctxCancelled, ret, waitVars, clients, seen, proc>>

\* variant: the connection is closed only when the slow-shutdown command
\* succeeded
GracefulCloseOnSuccess(t) ==
    /\ pc[t] = "closeConn"
    /\ IF \E i \in 1..Len(shutLog) :
             /\ shutLog[i].step = "exec"
             /\ shutLog[i].arg = "PROXYSQL SHUTDOWN SLOW"
             /\ shutLog[i].res = "ok"
       THEN /\ \E o \in {"ok", "fail"} :
                 shutLog' = Append(shutLog, LogEntry("close", "", t, o))
            /\ conn' = IF conn = "nil" THEN "nil" ELSE "closed"
       ELSE UNCHANGED <<shutLog, conn>>
    /\ pc' = [pc EXCEPT ![t] = "nilConn"]
    /\ UNCHANGED <<probeVars, feedVars, poll, settingsVars, storeVars, phase, httpServer, drainFile, once, onceRunner,
                   ctxCancelled, ret, waitVars, clients, seen, proc>>

\* gracefulShutdown, lines 634-639: p.conn.Close()
GracefulClose(t) ==
    /\ pc[t] = "closeConn"
    /\ \E o \in {"ok", "fail"} :
         shutLog' = Append(shutLog, LogEntry("close", "", t, o))
    /\ conn' = IF conn = "nil" THEN "nil" ELSE "closed"
    /\ pc' = [pc EXCEPT ![t] = "nilConn"]
    /\ UNCHANGED <<probeVars, feedVars, poll, settingsVars, storeVars, phase, httpServer, drainFile, once, onceRunner,
                   ctxCancelled, ret, waitVars, clients, seen, proc>>

\* gracefulShutdown, line 641: p.conn = nil
GracefulNilConn(t) ==
    /\ pc[t] = "nilConn"
    /\ conn' = "nil"
    /\ pc' = [pc EXCEPT ![t] = "httpShutdown"]
    /\ UNCHANGED <<probeVars, feedVars, poll, settingsVars, storeVars, phase, httpServer, drainFile, once, onceRunner,
                   ctxCancelled, ret, shutLog, waitVars, clients, seen, proc>>

\* gracefulShutdown, lines 645-657: httpServer.Shutdown under a context
\* derived from shutdownCtx
GracefulHTTP(t) ==
    /\ pc[t] = "httpShutdown"
    /\ IF httpServer # "nil"
       THEN /\ \E o \in (IF ShutdownCtxDone(t) THEN {"ctxerr"} ELSE {"ok", "fail"}) :
                 shutLog' = Append(shutLog, LogEntry("httpShutdown", "", t, o))
            /\ httpServer' = "stopped"
       ELSE UNCHANGED <<shutLog, httpServer>>
    /\ pc' = [pc EXCEPT ![t] = "setStopped"]
    /\ UNCHANGED <<probeVars, feedVars, poll, settingsVars, storeVars, phase, conn, drainFile, once, onceRunner,
                   ctxCancelled, ret, waitVars, clients, seen, proc>>

\* gracefulShutdown, lines 660-663, and the return of the Once closure
GracefulStopped(t) ==
    /\ pc[t] = "setStopped"
    /\ setShutdownPhase(t, PhaseStopped)
    /\ once' = "done"
    /\ pc' = [pc EXCEPT ![t] = "done"]
    /\ ret' = [ret EXCEPT ![t] = Returned(t, "nil")]
    /\ UNCHANGED <<probeVars, feedVars, poll, settingsVars, storeVars, conn, httpServer, drainFile, onceRunner,
                   ctxCancelled, waitVars, clients, seen, proc>>

\* ------------------------------------------------------------ environment
\* SIGTERM / SIGINT -> cancel() (cmd/proxysql-agent/main.go:62-66)
Cancel ==
    /\ ~ctxCancelled
    /\ ctxCancelled' = TRUE
    /\ UNCHANGED <<probeVars, feedVars, poll, settingsVars, storeVars, phase, conn, httpServer, drainFile, once, onceRunner,
                   pc, ret, shutLog, waitVars, clients, seen, proc>>

\* clients of the proxy connect and disconnect
ClientsChange ==
    /\ phase \in {PhaseRunning, PhaseDraining}
    /\ \E c \in 0..MaxClients :
         /\ c # clients
         /\ clients' = c
         /\ seen' = IF once = "running" /\ waitReason = "none"
                    THEN seen \cup {c} ELSE seen
    /\ UNCHANGED <<probeVars, feedVars, poll, settingsVars, storeVars, phase, conn, httpServer, drainFile, once, onceRunner,
                   ctxCancelled, pc, ret, shutLog, waitVars, proc>>

\* ------------------------------------------------- reconciliation procedures
\* a failed procedure ends the task that ran it, callback or loop
AfterProcFailureStops(t, outcome) ==
    IF outcome = "failed" THEN "exited"
    ELSE IF t = Main THEN "loop"
    ELSE "idle"

\* where a task goes when its procedure returns: an informer callback logs the
\* error and ends; Satellite returns on a resync error and loops otherwise
\* (satellite.go:321-325)
AfterProc(t, outcome) ==
    IF t = Main
    THEN IF outcome = "failed" THEN "exited" ELSE "loop"
    ELSE "idle"

\* the context the procedure's statements run under: context.Background() in
\* the informer callbacks (core.go:159, 212), the operating context in
\* SatelliteResync
ProcCtxDone(t) == t = Main /\ ctxCancelled

\* addPodToCluster, lines 249-279: the entry check and the command list
addPodToCluster(t, pod) ==
    /\ mode = "core"
    /\ t \in ReconTasks
    /\ pc[t] \in {"idle", "podAddedQuery"}
    /\ IF IsShuttingDown
       THEN /\ proc' = [proc EXCEPT ![t] = NewProc("join", pod, <<>>, "skipped")]
            /\ pc' = [pc EXCEPT ![t] = "idle"]
       ELSE LET c == addPodCommands(pod, address) IN
            IF c.err
            THEN /\ proc' = [proc EXCEPT ![t] = NewProc("join", pod, <<>>, "porterr")]
                 /\ pc' = [pc EXCEPT ![t] = "idle"]
            ELSE /\ proc' = [proc EXCEPT ![t] = NewProc("join", pod, c.cmds, "running")]
                 /\ pc' = [pc EXCEPT ![t] = "check"]
    /\ UNCHANGED <<probeVars, poll, settingsVars, storeVars, phase, conn, httpServer, drainFile, once, onceRunner,
                   ctxCancelled, ret, shutLog, waitVars, clients, seen>>

\* removePodFromCluster, lines 303-327: the entry check and the command list
removePodFromCluster(t, pod) ==
    /\ mode = "core"
    /\ t \in ReconTasks
    /\ pc[t] = "idle"
    /\ IF IsShuttingDown
       THEN /\ proc' = [proc EXCEPT ![t] = NewProc("leave", pod, <<>>, "skipped")]
            /\ pc' = pc
       ELSE /\ proc' = [proc EXCEPT ![t] =
                           NewProc("leave", pod, removePodCommands(pod), "running")]
            /\ pc' = [pc EXCEPT ![t] = "check"]
    /\ UNCHANGED <<probeVars, poll, settingsVars, storeVars, phase, conn, httpServer, drainFile, once, onceRunner,
                   ctxCancelled, ret, shutLog, waitVars, clients, seen>>

\* a check that reports the lost race with shutdown as a failure
ProcCheckAbortAsError(t) ==
    /\ pc[t] = "check"
    /\ IF IsShuttingDown
       THEN /\ proc' = [proc EXCEPT ![t].outcome = "failed"]
            /\ pc' = [pc EXCEPT ![t] = AfterProc(t, "failed")]
       ELSE /\ pc' = [pc EXCEPT ![t] = "exec"]
            /\ proc' = proc
    /\ UNCHANGED <<probeVars, feedVars, poll, settingsVars, storeVars, phase, conn, httpServer, drainFile, once,
                   onceRunner, ctxCancelled, ret, shutLog, waitVars, clients, seen>>

\* the loop's "if p.IsShuttingDown() { return nil }" before each command
\* (core.go:282-286, 330-334, satellite.go:401-405)
ProcCheck(t) ==
    /\ pc[t] = "check"
    /\ IF IsShuttingDown
       THEN /\ proc' = [proc EXCEPT ![t].outcome = "aborted"]
            /\ pc' = [pc EXCEPT ![t] = AfterProc(t, "aborted")]
       ELSE /\ pc' = [pc EXCEPT ![t] = "exec"]
            /\ proc' = proc
    /\ UNCHANGED <<probeVars, feedVars, poll, settingsVars, storeVars, phase, conn, httpServer, drainFile, once, onceRunner,
                   ctxCancelled, ret, shutLog, waitVars, clients, seen>>

\* a loop that returns the driver's error as it is, without the command text
ProcExecBareError(t) ==
    /\ pc[t] = "exec"
    /\ \E o \in ExecOutcomes(ProcCtxDone(t)) :
         LET p == proc[t]
             cmd == p.cmds[p.idx]
             issued == IF Sent(o) THEN Append(p.issued, <<p.cmds[p.idx], phase>>)
                       ELSE p.issued
             outcome == IF o = "panic" THEN "panic"
                        ELSE IF o # "ok" THEN "failed"
                        ELSE IF p.idx = Len(p.cmds) THEN "ok"
                        ELSE "running"
         IN /\ o = "ok" => ~Rejects(cmd, store)
            /\ proc' = [proc EXCEPT ![t] = [p EXCEPT !.issued = issued,
                                                      !.outcome = outcome,
                                                      !.err = IF outcome = "failed"
                                                              THEN CommandErr(<<>>, o)
                                                              ELSE NoErr,
                                                      !.idx = IF o = "ok" THEN p.idx + 1
                                                              ELSE p.idx]]
            /\ pc' = [pc EXCEPT ![t] = IF outcome = "running" THEN "check"
                                       ELSE IF outcome = "panic" THEN "crashed"
                                       ELSE AfterProc(t, outcome)]
            /\ store' = IF o = "ok" THEN ApplyMem(cmd, store) ELSE store
            /\ runtime' = IF o = "ok" THEN ApplyRun(cmd, store, runtime) ELSE runtime
    /\ UNCHANGED <<probeVars, feedVars, poll, settingsVars, phase, conn, httpServer, drainFile, once,
                   onceRunner, ctxCancelled, ret, shutLog, waitVars, clients, seen>>

\* the loop's p.conn.ExecContext(ctx, command) (core.go:288-291, 336-339,
\* satellite.go:407-410); a sent command is recorded with the phase it ran in
ProcExec(t) ==
    /\ pc[t] = "exec"
    /\ \E o \in ExecOutcomes(ProcCtxDone(t)) :
         LET p == proc[t]
             cmd == p.cmds[p.idx]
             issued == IF Sent(o) THEN Append(p.issued, <<p.cmds[p.idx], phase>>)
                       ELSE p.issued
             outcome == IF o = "panic" THEN "panic"
                        ELSE IF o # "ok" THEN "failed"
                        ELSE IF p.idx = Len(p.cmds) THEN "ok"
                        ELSE "running"
         IN /\ o = "ok" => ~Rejects(cmd, store)
            /\ proc' = [proc EXCEPT ![t] = [p EXCEPT !.issued = issued,
                                                      !.outcome = outcome,
                                                      !.err = IF outcome = "failed"
                                                              THEN CommandErr(cmd, o)
                                                              ELSE NoErr,
                                                      !.idx = IF o = "ok" THEN p.idx + 1
                                                              ELSE p.idx]]
            /\ pc' = [pc EXCEPT ![t] = IF outcome = "running" THEN "check"
                                       ELSE IF outcome = "panic" THEN "crashed"
                                       ELSE AfterProc(t, outcome)]
            /\ store' = IF o = "ok" THEN ApplyMem(cmd, store) ELSE store
            /\ runtime' = IF o = "ok" THEN ApplyRun(cmd, store, runtime) ELSE runtime
    /\ UNCHANGED <<probeVars, feedVars, poll, settingsVars, phase, conn, httpServer, drainFile, once,
                   onceRunner, ctxCancelled, ret, shutLog, waitVars, clients, seen>>

\* case <-ticker.C of Satellite and the entry check of SatelliteResync
\* (satellite.go:321-322, 380-384)
SatelliteResync(t) ==
    /\ mode = "satellite"
    /\ t = Main
    /\ pc[t] = "loop"
    /\ IF IsShuttingDown
       THEN /\ proc' = [proc EXCEPT ![t] = NewProc("resync", NoPod, <<>>, "skipped")]
            /\ pc' = pc
       ELSE /\ proc' = [proc EXCEPT ![t] = NewProc("resync", NoPod, <<>>, "running")]
            /\ pc' = [pc EXCEPT ![t] = "getMissing"]
    /\ UNCHANGED <<probeVars, feedVars, poll, settingsVars, storeVars, phase, conn, httpServer, drainFile, once, onceRunner,
                   ctxCancelled, ret, shutLog, waitVars, clients, seen>>

\* GetMissingCorePods, lines 335-337: -1 without a query when the handle is
\* nil or shutdown has begun, and then SatelliteResync has nothing to do
GetMissingCorePods(t) ==
    /\ pc[t] = "getMissing"
    /\ IF conn = "nil" \/ IsShuttingDown
       THEN /\ proc' = [proc EXCEPT ![t].outcome = "ok"]
            /\ pc' = [pc EXCEPT ![t] = AfterProc(t, "ok")]
       ELSE /\ pc' = [pc EXCEPT ![t] = "queryMissing"]
            /\ proc' = proc
    /\ UNCHANGED <<probeVars, feedVars, poll, settingsVars, storeVars, phase, conn, httpServer, drainFile, once, onceRunner,
                   ctxCancelled, ret, shutLog, waitVars, clients, seen>>

\* GetMissingCorePods, lines 339-353, and SatelliteResync, lines 387-398: the
\* count query; an error ends the resync, a count above zero starts the loop
QueryMissing(t) ==
    /\ pc[t] = "queryMissing"
    /\ \E o \in ExecOutcomes(ProcCtxDone(t)), missing \in {0, 1} :
         IF o = "panic"
         THEN /\ proc' = [proc EXCEPT ![t].outcome = "panic"]
              /\ pc' = [pc EXCEPT ![t] = "crashed"]
         ELSE IF o # "ok"
         THEN /\ proc' = [proc EXCEPT ![t].outcome = "failed"]
              /\ pc' = [pc EXCEPT ![t] = AfterProc(t, "failed")]
         ELSE IF missing > 0
         THEN /\ proc' = [proc EXCEPT ![t].cmds = resyncCommands, ![t].missing = missing]
              /\ pc' = [pc EXCEPT ![t] = "check"]
         ELSE /\ proc' = [proc EXCEPT ![t].outcome = "ok", ![t].missing = missing]
              /\ pc' = [pc EXCEPT ![t] = AfterProc(t, "ok")]
    /\ UNCHANGED <<probeVars, feedVars, poll, settingsVars, storeVars, phase, conn, httpServer, drainFile, once, onceRunner,
                   ctxCancelled, ret, shutLog, waitVars, clients, seen>>

\* ------------------------------------------------------- informer callbacks
\* a podAdded that takes every observed member for the process's own pod
IsSelfAny(pod) == pod.name = pod.name

\* podAdded, lines 168-171: "osErr != nil || pod.Name != hostname" bails out
IsSelf(pod) == ~hostname.err /\ pod.name = hostname.name

\* SELECT count(*) FROM proxysql_servers WHERE hostname = ? (core.go:177-179)
RowCount(ip, mem) == Cardinality({r \in mem : r.hostname = ip})

\* a podUpdated that joins a member whenever its new phase is Running
IsJoinTransitionToRunning(old, new) == new = "Running"

\* podUpdated, line 226
IsJoinTransition(old, new) == old = "Pending" /\ new = "Running"

\* podUpdated, line 236
IsLeaveTransition(old, new) == old = "Running" /\ new = "Failed"

\* AddFunc: podAdded up to the hostname test (core.go:158-171); ph is the
\* phase the member is first delivered in
podAdded(t, pod, ph) ==
    /\ mode = "core"
    /\ t \in ReconTasks
    /\ pc[t] = "idle"
    /\ member[pod.name] = "none"
    /\ ph \in PodPhases
    /\ member' = [member EXCEPT ![pod.name] = ph]
    /\ event' = NewEvent("added", PodAt(pod, ph), "none", ph, t)
    /\ began' = began
    /\ proc' = [proc EXCEPT ![t] = NoProc]
    /\ pc' = [pc EXCEPT ![t] = IF IsSelf(PodAt(pod, ph)) THEN "podAddedQuery" ELSE "idle"]
    /\ UNCHANGED restVars

\* podAdded, lines 175-198: the count query and what follows it
PodAddedQuery(t) ==
    /\ pc[t] = "podAddedQuery"
    /\ \E o \in ExecOutcomes(FALSE) :
         LET count == RowCount(event.pod.ip, store) IN
         IF o = "panic"
         THEN /\ pc' = [pc EXCEPT ![t] = "crashed"]
              /\ UNCHANGED <<proc, event, restVars>>
         ELSE IF o # "ok"
         THEN /\ event' = [event EXCEPT !.queried = Sent(o), !.qerr = TRUE]
              /\ pc' = [pc EXCEPT ![t] = "idle"]
              /\ UNCHANGED <<proc, restVars>>
         ELSE IF count > 0
         THEN /\ event' = [event EXCEPT !.queried = TRUE, !.count = count]
              /\ pc' = [pc EXCEPT ![t] = "idle"]
              /\ UNCHANGED <<proc, restVars>>
         ELSE /\ event' = [event EXCEPT !.queried = TRUE, !.count = count]
              /\ addPodToCluster(t, event.pod)
    /\ member' = member
    /\ began' = began

\* UpdateFunc: podUpdated (core.go:211-243); the informer also delivers an
\* update with old = new at every resync period (core.go:121)
podUpdated(t, pod, old, new) ==
    /\ mode = "core"
    /\ t \in ReconTasks
    /\ pc[t] = "idle"
    /\ old \in PodPhases
    /\ new \in PodPhases
    /\ member[pod.name] = old
    /\ member' = [member EXCEPT ![pod.name] = new]
    /\ event' = NewEvent("updated", pod, old, new, t)
    /\ began' = began
    /\ IF IsJoinTransition(old, new)
       THEN addPodToCluster(t, PodAt(pod, new))
       ELSE IF IsLeaveTransition(old, new)
       THEN removePodFromCluster(t, PodAt(pod, old))
       ELSE /\ proc' = [proc EXCEPT ![t] = NoProc]
            /\ pc' = pc
            /\ UNCHANGED restVars

\* DeleteFunc: nil (core.go:141): a deleted member is dropped from the
\* informer's view and no code runs
podDeleted(t, pod) ==
    /\ mode = "core"
    /\ t \in ReconTasks
    /\ pc[t] = "idle"
    /\ member[pod.name] # "none"
    /\ member' = [member EXCEPT ![pod.name] = "none"]
    /\ event' = NewEvent("deleted", pod, member[pod.name], "none", t)
    /\ began' = began
    /\ proc' = [proc EXCEPT ![t] = NoProc]
    /\ pc' = pc
    /\ UNCHANGED restVars

\* ------------------------------------------------------------------ probes
\* one of the proxy's backends comes, goes or changes its status
BackendsChange ==
    /\ \E dt \in {-1, 0, 1}, do \in {-1, 0, 1}, ds \in {-1, 0, 1} :
          /\ <<dt, do, ds>> # <<0, 0, 0>>
          /\ [total |-> backends.total + dt, online |-> backends.online + do,
              shunned |-> backends.shunned + ds] \in BackendStates
          /\ backends' = [total |-> backends.total + dt, online |-> backends.online + do,
                          shunned |-> backends.shunned + ds]
    /\ UNCHANGED <<probe, feedVars, poll, settingsVars, storeVars, phase, conn, httpServer,
                   drainFile, once, onceRunner, ctxCancelled, pc, ret, shutLog, waitVars,
                   clients, seen, proc>>

\* livenessHandler, lines 109-113: alive for ok and for draining
livenessCode(status) == IF status = "ok" \/ status = "draining" THEN 200 ELSE 503

\* a readiness that answers like the liveness handler
readinessCodeLikeLiveness(status) ==
    IF status = "ok" \/ status = "draining" THEN 200 ELSE 503

\* readinessHandler, lines 194-198: not ready for draining only
readinessCode(status) == IF status = "draining" THEN 503 ELSE 200

\* the reply to a request whose RunProbes returned an error (restapi.go:87-96,
\* 172-181)
ProbeError(p) == [p EXCEPT !.step = "error", !.code = 503, !.replied = phase]

\* the handler has panicked: net/http closes the connection without a reply
ProbePanic(p) == [p EXCEPT !.step = "crashed", !.code = 0, !.replied = phase]

\* the first lines of livenessHandler and readinessHandler (restapi.go:64-84,
\* 149-169): the reply without a probe when shutdown has begun
HandlerEntry(h, refusedCode) ==
    IF IsShuttingDown
    THEN [NoProbe EXCEPT !.handler = h, !.step = "refused", !.status = "draining",
                         !.message = "shutting down", !.draining = TRUE,
                         !.code = refusedCode, !.replied = phase]
    ELSE [NoProbe EXCEPT !.handler = h, !.step = "runProbes"]

\* GET /healthz/live: liveness stays OK during shutdown (restapi.go:80)
livenessHandler ==
    /\ probe.step \in Answered
    /\ probe' = HandlerEntry("liveness", 200)
    /\ UNCHANGED <<backends, feedVars, poll, settingsVars, storeVars, phase, conn, httpServer,
                   drainFile, once, onceRunner, ctxCancelled, pc, ret, shutLog, waitVars,
                   clients, seen, proc>>
\* GET /healthz/ready: not ready during shutdown (restapi.go:165)
readinessHandler ==
    /\ probe.step \in Answered
    /\ probe' = HandlerEntry("readiness", 503)
    /\ UNCHANGED <<backends, feedVars, poll, settingsVars, storeVars, phase, conn, httpServer,
                   drainFile, once, onceRunner, ctxCancelled, pc, ret, shutLog, waitVars,
                   clients, seen, proc>>
\* a query of probeBackends: the count, an error, or the panic of a nil handle
ProbeQuery(o, field, value, next) ==
    IF o = "panic" THEN ProbePanic(probe)
    ELSE IF o # "ok"
    THEN ProbeError([probe EXCEPT !.queries = IF Sent(o) THEN @ + 1 ELSE @])
    ELSE [probe EXCEPT ![field] = value, !.step = next, !.queries = @ + 1]

\* a probeBackends that skips its queries for a nil handle only
probeBackendsTotalAnyPhase ==
    /\ probe.step = "runProbes"
    /\ IF conn = "nil"
       THEN probe' = [probe EXCEPT !.step = "clients", !.entered = phase]
       ELSE \E o \in ExecOutcomes(FALSE) :
               probe' = [ProbeQuery(o, "total", backends.total, "online") EXCEPT
                            !.entered = phase]
    /\ UNCHANGED <<backends, feedVars, poll, settingsVars, storeVars, phase, conn, httpServer,
                   drainFile, once, onceRunner, ctxCancelled, pc, ret, shutLog, waitVars,
                   clients, seen, proc>>
\* RunProbes is called; probeBackends, lines 274-285: zeros without a query
\* when the handle is nil or shutdown has begun, else the count of all backends
probeBackendsTotal ==
    /\ probe.step = "runProbes"
    /\ IF conn = "nil" \/ IsShuttingDown
       THEN probe' = [probe EXCEPT !.step = "clients", !.entered = phase]
       ELSE \E o \in ExecOutcomes(FALSE) :
               probe' = [ProbeQuery(o, "total", backends.total, "online") EXCEPT
                            !.entered = phase]
    /\ UNCHANGED <<backends, feedVars, poll, settingsVars, storeVars, phase, conn, httpServer,
                   drainFile, once, onceRunner, ctxCancelled, pc, ret, shutLog, waitVars,
                   clients, seen, proc>>
\* probeBackends, lines 287-293: the count of the online backends
probeBackendsOnline ==
    /\ probe.step = "online"
    /\ \E o \in ExecOutcomes(FALSE) :
          probe' = ProbeQuery(o, "online", backends.online, "shunned")
    /\ UNCHANGED <<backends, feedVars, poll, settingsVars, storeVars, phase, conn, httpServer,
                   drainFile, once, onceRunner, ctxCancelled, pc, ret, shutLog, waitVars,
                   clients, seen, proc>>
\* probeBackends, lines 295-304: the count of the shunned backends
probeBackendsShunned ==
    /\ probe.step = "shunned"
    /\ \E o \in ExecOutcomes(FALSE) :
          probe' = ProbeQuery(o, "shunned", backends.shunned, "clients")
    /\ UNCHANGED <<backends, feedVars, poll, settingsVars, storeVars, phase, conn, httpServer,
                   drainFile, once, onceRunner, ctxCancelled, pc, ret, shutLog, waitVars,
                   clients, seen, proc>>
\* RunProbes, lines 125-128: ProbeClients
RunProbesClients ==
    /\ probe.step = "clients"
    /\ \E r \in ProbeClients :
          LET sent == [probe EXCEPT !.queries = IF r.queried THEN @ + 1 ELSE @] IN
          probe' = IF r.err THEN ProbeError(sent)
                   ELSE [sent EXCEPT !.clients = r.clients, !.step = "draining"]
    /\ UNCHANGED <<backends, feedVars, poll, settingsVars, storeVars, phase, conn, httpServer,
                   drainFile, once, onceRunner, ctxCancelled, pc, ret, shutLog, waitVars,
                   clients, seen, proc>>
\* RunProbes, lines 130-148: probeDraining stats the drain file and
\* processResults classifies the result; the handler picks the status code
\* (restapi.go:98-116, 183-201)
RunProbesResult ==
    /\ probe.step = "draining"
    /\ LET results == processResults([probe EXCEPT !.draining = drainFile,
                                                    !.step = "done"])
       IN probe' = [results EXCEPT
                       !.code = IF probe.handler = "liveness"
                                THEN livenessCode(results.status)
                                ELSE readinessCode(results.status),
                       !.replied = phase]
    /\ UNCHANGED <<backends, feedVars, poll, settingsVars, storeVars, phase, conn, httpServer,
                   drainFile, once, onceRunner, ctxCancelled, pc, ret, shutLog, waitVars,
                   clients, seen, proc>>
\* GET /healthz/started: startupHandler calls Ping, whose first lines
\* (proxysql.go:92-94) return nil when the handle is nil or shutdown has begun
Ping ==
    /\ probe.step \in Answered
    /\ probe' = IF conn = "nil" \/ IsShuttingDown
                THEN [NoProbe EXCEPT !.handler = "startup", !.step = "pinged",
                                     !.status = "ok", !.code = 200, !.replied = phase]
                ELSE [NoProbe EXCEPT !.handler = "startup", !.step = "ping"]
    /\ UNCHANGED <<backends, feedVars, poll, settingsVars, storeVars, phase, conn, httpServer,
                   drainFile, once, onceRunner, ctxCancelled, pc, ret, shutLog, waitVars,
                   clients, seen, proc>>
\* a ping that opens the control connection anew when it finds it closed
PingContextReopens ==
    /\ probe.step = "ping"
    /\ \E o \in ExecOutcomes(FALSE) :
          /\ probe' = IF o = "panic" THEN ProbePanic(probe)
                      ELSE [probe EXCEPT !.step = "pinged", !.replied = phase,
                                         !.status = "ok", !.code = 200]
          /\ conn' = IF o = "dberr" THEN "open" ELSE conn
    /\ UNCHANGED <<backends, feedVars, poll, settingsVars, storeVars, phase, httpServer,
                   drainFile, once, onceRunner, ctxCancelled, pc, ret, shutLog, waitVars,
                   clients, seen, proc>>

\* Ping, lines 96-101, and startupHandler's reply (restapi.go:218-231):
\* p.conn.PingContext; 502 on an error
PingContext ==
    /\ probe.step = "ping"
    /\ \E o \in ExecOutcomes(FALSE) :
          probe' = IF o = "panic" THEN ProbePanic(probe)
                   ELSE [probe EXCEPT !.step = "pinged", !.replied = phase,
                                      !.queries = IF Sent(o) THEN @ + 1 ELSE @,
                                      !.status = IF o = "ok" THEN "ok" ELSE "unhealthy",
                                      !.code = IF o = "ok" THEN 200 ELSE 502]
    /\ UNCHANGED <<backends, feedVars, poll, settingsVars, storeVars, phase, conn, httpServer,
                   drainFile, once, onceRunner, ctxCancelled, pc, ret, shutLog, waitVars,
                   clients, seen, proc>>
\* ------------------------------------------------------- poll-based path
\* the next cycle of Core's loop: coreLoop's call of GetCorePods
\* (core.go:394, 446-471): a fresh list of the pods
GetCorePods ==
    /\ poll.step = "done"
    /\ \E l \in PodLists : poll' = NewPoll(l, poll.watermark)
    /\ UNCHANGED <<probeVars, feedVars, settingsVars, storeVars, phase, conn, httpServer,
                   drainFile, once, onceRunner, ctxCancelled, pc, ret, shutLog, waitVars,
                   clients, seen, proc>>
\* coreLoop, lines 401-430: nothing to do for an empty list; for the digest
\* of the checksum file only the one LOAD; else createCommands, which sorts
\* the slice in place and builds the batch
coreLoop ==
    /\ poll.step = "listed"
    /\ IF Len(poll.pods) = 0
       THEN poll' = [poll EXCEPT !.step = "done"]
       ELSE IF poll.watermark = calculateChecksum(poll.pods)
       THEN poll' = [poll EXCEPT !.step = "load"]
       ELSE \E sorted \in SortByPodIP(poll.pods) :
               poll' = [poll EXCEPT !.pods = sorted,
                                    !.commands = createCommands(sorted),
                                    !.step = "exec", !.idx = 1]
    /\ UNCHANGED <<probeVars, feedVars, settingsVars, storeVars, phase, conn, httpServer,
                   drainFile, once, onceRunner, ctxCancelled, pc, ret, shutLog, waitVars,
                   clients, seen, proc>>
\* coreLoop, lines 419-426: LOAD PROXYSQL SERVERS TO RUNTIME for an unchanged
\* digest; an error is logged
coreLoopLoad ==
    /\ poll.step = "load"
    /\ \E o \in ExecOutcomes(FALSE) :
          poll' = [poll EXCEPT !.step = IF o = "panic" THEN "crashed" ELSE "done"]
    /\ UNCHANGED <<probeVars, feedVars, settingsVars, storeVars, phase, conn, httpServer,
                   drainFile, once, onceRunner, ctxCancelled, pc, ret, shutLog, waitVars,
                   clients, seen, proc>>
\* coreLoop, lines 430-436: one command of the batch; an error is logged and
\* the loop goes on to the next command
coreLoopExec ==
    /\ poll.step = "exec"
    /\ \E o \in ExecOutcomes(FALSE) :
          poll' = [poll EXCEPT !.failed = @ \/ o # "ok",
                               !.idx = @ + 1,
                               !.step = IF o = "panic" THEN "crashed"
                                        ELSE IF poll.idx = Len(poll.commands)
                                        THEN "write"
                                        ELSE "exec"]
    /\ UNCHANGED <<probeVars, feedVars, settingsVars, storeVars, phase, conn, httpServer,
                   drainFile, once, onceRunner, ctxCancelled, pc, ret, shutLog, waitVars,
                   clients, seen, proc>>
\* coreLoop, lines 438-442: os.WriteFile of the digest; an error is logged
coreLoopWrite ==
    /\ poll.step = "write"
    /\ \E ok \in BOOLEAN :
          poll' = [poll EXCEPT !.step = "done",
                               !.watermark = IF ok THEN calculateChecksum(poll.pods)
                                             ELSE @]
    /\ UNCHANGED <<probeVars, feedVars, settingsVars, storeVars, phase, conn, httpServer,
                   drainFile, once, onceRunner, ctxCancelled, pc, ret, shutLog, waitVars,
                   clients, seen, proc>>
\* ------------------------------------------------------------------- Next
Shutdown(t) ==
    \/ OnceDo(t)
    \/ StartDrainingPhase(t)
    \/ StartDrainingFile(t)
    \/ StartDrainingPause(t)
    \/ WaitDeadline(t)
    \/ WaitTick(t)
    \/ GracefulStopping(t)
    \/ GracefulShutdownSlow(t)
    \/ GracefulClose(t)
    \/ GracefulNilConn(t)
    \/ GracefulHTTP(t)
    \/ GracefulStopped(t)

\* the shutdown triggers and the proxy's clients
Next ==
    \/ Cancel
    \/ ClientsChange
    \/ \E t \in ShutTasks : Shutdown(t)

Spec == Init /\ [][Next]_vars

\* the informer callbacks' procedures and the satellite resync, racing with
\* the shutdown triggers
NextRecon ==
    \/ Cancel
    \/ \E t \in ShutTasks : Shutdown(t)
    \/ \E pod \in Pods : addPodToCluster(Recon, pod) /\ UNCHANGED feedVars
    \/ \E pod \in Pods : removePodFromCluster(Recon, pod) /\ UNCHANGED feedVars
    \/ \E t \in ProcTasks : ProcCheck(t)
    \/ \E t \in ProcTasks : ProcExec(t)
    \/ SatelliteResync(Main)
    \/ GetMissingCorePods(Main)
    \/ QueryMissing(Main)

SpecRecon == InitRecon /\ [][NextRecon]_vars

\* the reconciler alone, fed by the informer, with the phase Running
InitFeed ==
    /\ mode = "core"
    /\ address = AddrV4
    /\ drainTimeout = MaxDrainTimeout
    /\ shutdownTimeout = MaxShutdownTimeout
    /\ httpServer = "set"
    /\ clients = 0
    /\ hostname \in {OwnHostname, NoHostname}
    /\ InitState

NextFeed ==
    \/ \E pod \in Members, ph \in PodPhases : podAdded(Recon, pod, ph)
    \/ PodAddedQuery(Recon)
    \/ \E pod \in Members, old \in PodPhases, new \in PodPhases :
          podUpdated(Recon, pod, old, new)
    \/ \E pod \in Members : podDeleted(Recon, pod)
    \/ ProcCheck(Recon)
    \/ ProcExec(Recon)

SpecFeed == InitFeed /\ [][NextFeed]_vars

\* the table as the proxy starts with it, and as a completed join of the
\* primary-role member m2 leaves it
StartTables == {ConfigServers, {Row("10.0.0.6", 6032, "m2")}}

\* join procedures called one after another and overlapping, for members that
\* run, with the phase Running
InitJoin ==
    /\ mode = "core"
    /\ address = AddrV4
    /\ drainTimeout = MaxDrainTimeout
    /\ shutdownTimeout = MaxShutdownTimeout
    /\ httpServer = "set"
    /\ clients = 0
    /\ hostname = OwnHostname
    /\ phase = PhaseRunning
    /\ conn = "open"
    /\ drainFile = FALSE
    /\ once = "idle"
    /\ onceRunner = NoTask
    /\ ctxCancelled = FALSE
    /\ pc = [t \in Tasks |-> IF t = Main THEN "loop" ELSE "idle"]
    /\ ret = [t \in ShutTasks |-> "none"]
    /\ shutLog = <<>>
    /\ now = 0
    /\ drainChecks = 0
    /\ waitReason = "none"
    /\ seen = {}
    /\ proc = [t \in ProcTasks |-> NoProc]
    /\ store \in StartTables
    /\ runtime = store
    /\ member = [n \in {m.name : m \in Members} |-> "none"]
    /\ event = NoEvent
    /\ began = [NoBegan EXCEPT !.mem = [t \in ReconTasks |-> store],
                               !.run = [t \in ReconTasks |-> store]]
    /\ backends = AllOnline
    /\ probe = NoProbe
    /\ poll = NoPoll

JoinCall(t, pod) ==
    /\ pc[t] = "idle"
    /\ began.calls < MaxCalls
    /\ addPodToCluster(t, PodAt(pod, "Running"))
    /\ began' = Began(t)
    /\ UNCHANGED <<member, event>>

NextJoin ==
    \/ \E t \in ReconTasks, pod \in Members : JoinCall(t, pod)
    \/ \E t \in ReconTasks : ProcCheck(t)
    \/ \E t \in ReconTasks : ProcExec(t)

SpecJoin == InitJoin /\ [][NextJoin]_vars

\* the probes of the health endpoints racing with the backends' changes. No
\* code removes the drain file, so a process can start with the file in place:
\* left by an earlier run or created for maintenance (proxysql.go:224-225)
InitProbe ==
    /\ mode = "core"
    /\ address = AddrV4
    /\ drainTimeout = MaxDrainTimeout
    /\ shutdownTimeout = MaxShutdownTimeout
    /\ httpServer = "set"
    /\ clients \in 0..MaxClients
    /\ hostname = OwnHostname
    /\ phase = PhaseRunning
    /\ conn = "open"
    /\ drainFile \in BOOLEAN
    /\ once = "idle"
    /\ onceRunner = NoTask
    /\ ctxCancelled = FALSE
    /\ pc = [t \in Tasks |-> IF t = Main THEN "loop" ELSE "idle"]
    /\ ret = [t \in ShutTasks |-> "none"]
    /\ shutLog = <<>>
    /\ now = 0
    /\ drainChecks = 0
    /\ waitReason = "none"
    /\ seen = {}
    /\ proc = [t \in ProcTasks |-> NoProc]
    /\ store = ConfigServers
    /\ runtime = ConfigServers
    /\ member = [n \in {m.name : m \in Members} |-> "none"]
    /\ event = NoEvent
    /\ began = NoBegan
    /\ backends \in BackendStates
    /\ probe = NoProbe
    /\ poll = NoPoll

NextProbe ==
    \/ BackendsChange
    \/ livenessHandler
    \/ readinessHandler
    \/ probeBackendsTotal
    \/ probeBackendsOnline
    \/ probeBackendsShunned
    \/ RunProbesClients
    \/ RunProbesResult

SpecProbe == InitProbe /\ [][NextProbe]_vars

\* the health endpoints served while the shutdown triggers arrive, with the
\* largest shutdown settings
InitHealth ==
    /\ mode = "core"
    /\ address = AddrV4
    /\ drainTimeout = MaxDrainTimeout
    /\ shutdownTimeout = MaxShutdownTimeout
    /\ httpServer = "set"
    /\ clients \in 0..MaxClients
    /\ hostname = OwnHostname
    /\ InitState

NextHealth ==
    \/ Cancel
    \/ \E t \in ShutTasks : Shutdown(t)
    \/ livenessHandler
    \/ readinessHandler
    \/ probeBackendsTotal
    \/ probeBackendsOnline
    \/ probeBackendsShunned
    \/ RunProbesClients
    \/ RunProbesResult
    \/ Ping
    \/ PingContext

SpecHealth == InitHealth /\ [][NextHealth]_vars

\* the poll-based path: the pods are listed and the command batch is built
\* from the list
InitPoll ==
    /\ mode = "core"
    /\ address = AddrV4
    /\ drainTimeout = MaxDrainTimeout
    /\ shutdownTimeout = MaxShutdownTimeout
    /\ httpServer = "set"
    /\ clients = 0
    /\ hostname = OwnHostname
    /\ phase = PhaseRunning
    /\ conn = "open"
    /\ drainFile = FALSE
    /\ once = "idle"
    /\ onceRunner = NoTask
    /\ ctxCancelled = FALSE
    /\ pc = [t \in Tasks |-> IF t = Main THEN "loop" ELSE "idle"]
    /\ ret = [t \in ShutTasks |-> "none"]
    /\ shutLog = <<>>
    /\ now = 0
    /\ drainChecks = 0
    /\ waitReason = "none"
    /\ seen = {}
    /\ proc = [t \in ProcTasks |-> NoProc]
    /\ store = ConfigServers
    /\ runtime = ConfigServers
    /\ member = [n \in {m.name : m \in Members} |-> "none"]
    /\ event = NoEvent
    /\ began = NoBegan
    /\ backends = AllOnline
    /\ probe = NoProbe
    /\ \E l \in PodLists : poll = NewPoll(l, NoDigest)

NextPoll ==
    \/ GetCorePods
    \/ coreLoop
    \/ coreLoopLoad
    \/ coreLoopExec
    \/ coreLoopWrite

SpecPoll == InitPoll /\ [][NextPoll]_vars

\* the informer's AddFunc and the join procedure it starts, racing with the
\* shutdown triggers
InitWatch ==
    /\ mode = "core"
    /\ address = AddrV4
    /\ drainTimeout = MaxDrainTimeout
    /\ shutdownTimeout = MaxShutdownTimeout
    /\ httpServer = "set"
    /\ clients = 0
    /\ hostname = OwnHostname
    /\ InitState

NextWatch ==
    \/ Cancel
    \/ \E t \in ShutTasks : Shutdown(t)
    \/ \E pod \in Pods, ph \in PodPhases : podAdded(Recon, pod, ph)
    \/ PodAddedQuery(Recon)
    \/ ProcCheck(Recon)
    \/ ProcExec(Recon)

SpecWatch == InitWatch /\ [][NextWatch]_vars

TypeOK ==
    /\ phase \in ShutdownPhase
    /\ conn \in {"open", "closed", "nil"}
    /\ once \in {"idle", "running", "done"}
    /\ onceRunner \in ShutTasks \cup {NoTask}
    /\ clients \in 0..MaxClients

\* ==================================================================== claims
PauseCount ==
    Cardinality({i \in 1..Len(shutLog) : shutLog[i].step = "exec"
                                          /\ shutLog[i].arg = "PROXYSQL PAUSE"})
SlowCount ==
    Cardinality({i \in 1..Len(shutLog) : shutLog[i].step = "exec"
                                          /\ shutLog[i].arg = "PROXYSQL SHUTDOWN SLOW"})

\* the statements a procedure has sent, without the phase they ran in
Statements(issued) == [i \in 1..Len(issued) |-> issued[i][1]]

\* C1: however many shutdown triggers arrive (POST /shutdown requests and the
\* cancellation of the operating context), in any interleaving, step 1 of the
\* drain sequence (startDraining: phase to Draining, sentinel file, PROXYSQL
\* PAUSE) is run exactly once: never twice, and once as soon as any trigger
\* has returned.
C1_SingleExecution ==
    /\ CountArg("setShutdownPhase", PhaseDraining) <= 1
    /\ Count("createDrainFile") <= 1
    /\ PauseCount <= 1
    /\ (\E t \in ShutTasks : ret[t] # "none") =>
          /\ CountArg("setShutdownPhase", PhaseDraining) = 1
          /\ Count("createDrainFile") = 1

\* C1 witness: both HTTP triggers and the cancellation trigger have returned
C1_Witness ==
    /\ \A t \in ShutTasks : pc[t] = "done"
    /\ CountArg("setShutdownPhase", PhaseDraining) = 1
    /\ PauseCount = 1

\* C2: the shutdown phase never moves to a phase ordered before its current
\* one (Running < Draining < Stopping < Stopped), and Stopped is final.
C2_PhaseMonotonic ==
    [][/\ PhaseOrd(phase') >= PhaseOrd(phase)
       /\ (phase = PhaseStopped => phase' = PhaseStopped)]_vars

\* C2 witness: the phase went through all four values
C2_Witness ==
    /\ phase = PhaseStopped
    /\ PhaseHist = <<PhaseDraining, PhaseStopping, PhaseStopped>>

\* C3 (as claimed): every statement of join, leave or resync that reaches the
\* control connection does so while the shutdown phase is Running.
C3_CommandsOnlyWhileRunning ==
    \A t \in ProcTasks : \A i \in 1..Len(proc[t].issued) :
        proc[t].issued[i][2] = PhaseRunning

\* C4 (as claimed): a shutdown triggered with zero connected clients (and none
\* connecting before the wait ends) takes the phase through Draining, Stopping,
\* Stopped, and its drain wait makes exactly one client-count check. Stated
\* for the runs in which the sentinel file was written and both the drain
\* timeout and the shutdown timeout lie beyond the first poll tick.
C4_ScenarioB ==
    (/\ once = "done"
     /\ seen = {0}
     /\ drainFile
     /\ drainTimeout > TickSeconds
     /\ shutdownTimeout > TickSeconds) =>
        /\ PhaseHist = <<PhaseDraining, PhaseStopping, PhaseStopped>>
        /\ drainChecks = 1

\* C5 (as claimed): the drain wait returns early (before the drain timeout and
\* the deadline) only if the proxy's connected-client count was zero at a poll.
C5_EarlyReturnOnlyWhenDrained ==
    waitReason = "drained" => 0 \in seen

\* C6 (as claimed): if the connected-client count never reaches zero, the drain
\* wait returns at the first tick at which the drain timeout has elapsed or
\* when the overall deadline fires.
C6_DrainBound ==
    (waitReason # "none" /\ 0 \notin seen) =>
        \/ waitReason = "timeout" /\ now >= drainTimeout
        \/ waitReason = "deadline" /\ now >= Deadline(onceRunner)

\* C7 (as claimed): whichever shutdown step fails, the sequence goes on: when
\* the trigger that ran it has returned, the pause command, the slow-shutdown
\* command, the close and the transport stop have all been attempted and the
\* phase is Stopped.
C7_StepFailureContinues ==
    once = "done" =>
        /\ phase = PhaseStopped
        /\ Count("createDrainFile") = 1
        /\ PauseCount = 1
        /\ SlowCount = 1
        /\ Count("close") = 1
        /\ (httpServer # "nil" => Count("httpShutdown") = 1)

\* C8: a begin-shutdown call (PreStopShutdown) that is not the one running the
\* sequence performs no shutdown step, issues no command, changes neither the
\* phase nor the connection handle, and returns no error.
C8_Idempotent ==
    /\ [](/\ \A i \in 1..Len(shutLog) : shutLog[i].actor = onceRunner
          /\ \A c \in Callers : (pc[c] = "done" /\ c # onceRunner) => ret[c] = "nil")
    /\ [][\A c \in Callers :
            (c # onceRunner' /\ pc'[c] # pc[c]) =>
                /\ phase' = phase
                /\ conn' = conn
                /\ shutLog' = shutLog
                /\ pc'[c] = "done"]_vars

\* C8 witness: a begin-shutdown call returned after another trigger ran the
\* whole sequence
C8_Witness ==
    \E c \in Callers :
        /\ pc[c] = "done"
        /\ c # onceRunner
        /\ onceRunner # NoTask
        /\ phase = PhaseStopped
        /\ ret[c] = "nil"

\* the statements the join procedure is to issue for a member
ExpectedJoin(pod) ==
    IF pod.component = "core"
    THEN << <<"DELETE FROM proxysql_servers WHERE hostname =", "proxysql-core">>,
            <<"INSERT INTO proxysql_servers VALUES", pod.ip, ClusterPort(address).port,
              0, pod.name>>,
            <<"LOAD TO RUNTIME", "PROXYSQL SERVERS">>,
            <<"LOAD TO RUNTIME", "ADMIN VARIABLES">>,
            <<"LOAD TO RUNTIME", "MYSQL VARIABLES">>,
            <<"LOAD TO RUNTIME", "MYSQL SERVERS">>,
            <<"LOAD TO RUNTIME", "MYSQL USERS">>,
            <<"LOAD TO RUNTIME", "MYSQL QUERY RULES">> >>
    ELSE << <<"DELETE FROM proxysql_servers WHERE hostname =", "proxysql-core">>,
            <<"LOAD TO RUNTIME", "PROXYSQL SERVERS">>,
            <<"LOAD TO RUNTIME", "ADMIN VARIABLES">>,
            <<"LOAD TO RUNTIME", "MYSQL VARIABLES">>,
            <<"LOAD TO RUNTIME", "MYSQL SERVERS">>,
            <<"LOAD TO RUNTIME", "MYSQL USERS">>,
            <<"LOAD TO RUNTIME", "MYSQL QUERY RULES">> >>

\* C9 (as claimed): a join that ran with the phase Running and without a
\* failing command has issued: delete placeholder, insert the member's row (if
\* primary-role), the six loads in the fixed order.
C9_JoinSequenceAsClaimed ==
    \A t \in ReconTasks :
        (proc[t].kind = "join" /\ proc[t].outcome \in {"ok", "porterr"}) =>
            Statements(proc[t].issued) = ExpectedJoin(proc[t].pod)

\* C9 (amended): as claimed, provided that for a primary-role member the cluster
\* port can be read from the configured proxy address (exactly "host:port" with
\* a numeric port); when it cannot, a primary-role join issues no statement and
\* returns an error. A join of a member that is not primary-role does not
\* consult the address.
C9_JoinSequence ==
    \A t \in ReconTasks :
        proc[t].kind = "join" =>
            /\ proc[t].outcome = "ok" =>
                  Statements(proc[t].issued) = ExpectedJoin(proc[t].pod)
            /\ proc[t].outcome = "porterr" =>
                  /\ proc[t].pod.component = "core"
                  /\ ClusterPort(address).err
                  /\ proc[t].issued = <<>>
            /\ (proc[t].pod.component = "core" /\ ClusterPort(address).err) =>
                  proc[t].outcome \in {"skipped", "porterr"}

\* C9 witness: a completed join of a primary-role member
C9_Witness ==
    \E t \in ReconTasks :
        /\ proc[t].kind = "join"
        /\ proc[t].outcome = "ok"
        /\ proc[t].pod.component = "core"
        /\ Len(proc[t].issued) = 8
        /\ \A i \in 1..8 : proc[t].issued[i][2] = PhaseRunning

\* the statements the leave procedure is to issue for a member
ExpectedLeave(pod) ==
    IF pod.component = "core"
    THEN << <<"DELETE FROM proxysql_servers WHERE hostname =", pod.ip>>,
            <<"LOAD TO RUNTIME", "PROXYSQL SERVERS">>,
            <<"LOAD TO RUNTIME", "ADMIN VARIABLES">>,
            <<"LOAD TO RUNTIME", "MYSQL VARIABLES">>,
            <<"LOAD TO RUNTIME", "MYSQL SERVERS">>,
            <<"LOAD TO RUNTIME", "MYSQL USERS">>,
            <<"LOAD TO RUNTIME", "MYSQL QUERY RULES">> >>
    ELSE << <<"LOAD TO RUNTIME", "PROXYSQL SERVERS">>,
            <<"LOAD TO RUNTIME", "ADMIN VARIABLES">>,
            <<"LOAD TO RUNTIME", "MYSQL VARIABLES">>,
            <<"LOAD TO RUNTIME", "MYSQL SERVERS">>,
            <<"LOAD TO RUNTIME", "MYSQL USERS">>,
            <<"LOAD TO RUNTIME", "MYSQL QUERY RULES">> >>

\* C10: a leave that ran with the phase Running and without a failing command
\* has issued: delete the row with the member's address (if primary-role), then
\* the six loads in the fixed order; only the six loads otherwise.
C10_LeaveSequence ==
    \A t \in ReconTasks :
        proc[t].kind = "leave" =>
            /\ proc[t].outcome \in {"running", "ok", "skipped", "aborted", "failed", "panic"}
            /\ proc[t].outcome = "ok" =>
                  Statements(proc[t].issued) = ExpectedLeave(proc[t].pod)

\* C10 witness: a completed leave of a primary-role member
C10_Witness ==
    \E t \in ReconTasks :
        /\ proc[t].kind = "leave"
        /\ proc[t].outcome = "ok"
        /\ proc[t].pod.component = "core"
        /\ Len(proc[t].issued) = 7
        /\ \A i \in 1..7 : proc[t].issued[i][2] = PhaseRunning

\* C11: on-member-observed (podAdded) issues no query and no command for a
\* member that is not the process's own pod; for its own pod it queries the
\* rows with the member's address, issues nothing further when a row exists,
\* and runs the join procedure (for that member) only when the count is zero.
C11_MemberObserved ==
    /\ [](event.type = "added" =>
            LET own == ~hostname.err /\ event.pod.name = hostname.name
                p == proc[Recon]
            IN /\ ~own => (~event.queried /\ p = NoProc /\ pc[Recon] = "idle")
               /\ (own /\ pc[Recon] # "podAddedQuery") => event.queried
               /\ (event.queried /\ event.count > 0) => (p = NoProc /\ pc[Recon] = "idle")
               /\ (event.queried /\ event.count = 0) => p.kind = "join"
               /\ p # NoProc => /\ p.kind = "join"
                                /\ p.pod = event.pod
                                /\ own
                                /\ event.queried
                                /\ ~event.qerr
                                /\ event.count = 0)
    /\ [][(pc[Recon] = "podAddedQuery" /\ event'.queried /\ ~event'.qerr) =>
            event'.count = Cardinality({r \in store : r.hostname = event.pod.ip})]_vars

\* C11 witness: the process observed its own pod, found no row and ran the join
C11_Witness ==
    /\ event.type = "added"
    /\ event.pod.name = hostname.name
    /\ event.queried
    /\ event.count = 0
    /\ proc[Recon].kind = "join"
    /\ proc[Recon].outcome = "ok"

Settled ==
    /\ pc[Recon] = "idle"
    /\ event.clean
    /\ ~event.qerr
    /\ proc[Recon].outcome \in {"none", "ok"}

\* the rows of primary-role members: every row but the placeholder
PrimaryRows(mem) == {r \in mem : r.hostname # "proxysql-core"}

\* C15 (as claimed): after any sequence of completed join and leave
\* procedures the placeholder row is in the table if and only if the table
\* holds no primary-role row.
C15_PlaceholderInvariant ==
    Settled =>
        (\E r \in store : r.hostname = "proxysql-core") <=> (PrimaryRows(store) = {})

\* C16 (as claimed): after the reconciler has processed any sequence of
\* notifications, with the phase Running and no command failing, the table
\* holds exactly one row for every primary-role member that is running and no
\* row for a member that has left (phase Succeeded or Failed).
C16_RowPerRunningPrimary ==
    (Settled /\ phase = PhaseRunning) =>
        \A m \in Members :
            LET rows == {r \in store : r.comment = m.name} IN
            /\ (m.component = "core" /\ member[m.name] = "Running") =>
                  Cardinality(rows) = 1
            /\ member[m.name] \in {"Succeeded", "Failed"} => rows = {}

\* C13: when the check a join or leave procedure makes before a step finds the
\* shutdown phase no longer Running, the procedure issues no further step and
\* returns nil, at whichever step of the sequence this happens (the entry check
\* included).
C13_AbortReturnsSuccess ==
    /\ [](\A t \in ReconTasks :
            proc[t].kind \in {"join", "leave"} =>
                /\ proc[t].outcome = "skipped" =>
                      proc[t].issued = <<>> /\ ProcReturn(proc[t].outcome) = "nil"
                /\ proc[t].outcome = "aborted" =>
                      /\ pc[t] = "idle"
                      /\ Len(proc[t].issued) < Len(proc[t].cmds)
                      /\ ProcReturn(proc[t].outcome) = "nil")
    /\ [][\A t \in ReconTasks :
            /\ (/\ proc[t].kind \in {"join", "leave"}
                /\ pc[t] = "check"
                /\ IsShuttingDown
                /\ pc'[t] # pc[t]) =>
                   /\ proc'[t].issued = proc[t].issued
                   /\ ProcReturn(proc'[t].outcome) = "nil"
                   /\ pc'[t] = "idle"
            /\ (proc[t].outcome \in {"skipped", "aborted"}) =>
                   \/ proc'[t].issued = proc[t].issued
                   \/ proc'[t].issued = <<>>]_vars

\* C13 witness: a join aborted in the middle of its command sequence
C13_Witness ==
    \E t \in ReconTasks :
        /\ proc[t].kind = "join"
        /\ proc[t].outcome = "aborted"
        /\ Len(proc[t].issued) >= 2
        /\ Len(proc[t].issued) < Len(proc[t].cmds)

\* C14: when a command of a join or leave procedure fails, the procedure ends
\* there: nothing after the failing command is issued, and the error returned
\* carries the text of the failing command and wraps the underlying error.
C14_FailureAborts ==
    /\ [](\A t \in ReconTasks :
            (proc[t].kind \in {"join", "leave"} /\ proc[t].outcome = "failed") =>
                /\ pc[t] = "idle"
                /\ ProcReturn(proc[t].outcome) = "err"
                /\ proc[t].err.cmd = proc[t].cmds[proc[t].idx]
                /\ proc[t].err.wraps \in {"fail", "ctxerr", "dberr"}
                /\ Len(proc[t].issued) \in {proc[t].idx - 1, proc[t].idx}
                /\ Statements(proc[t].issued) =
                      SubSeq(proc[t].cmds, 1, Len(proc[t].issued)))
    /\ [][\A t \in ReconTasks :
            (/\ proc[t].kind \in {"join", "leave"}
             /\ pc[t] = "exec"
             /\ pc'[t] \notin {"exec", "crashed"}
             /\ proc'[t].idx = proc[t].idx) =>
                /\ proc'[t].outcome = "failed"
                /\ pc'[t] = "idle"]_vars

\* C14 witness: a join whose third command failed at the proxy
C14_Witness ==
    \E t \in ReconTasks :
        /\ proc[t].kind = "join"
        /\ proc[t].outcome = "failed"
        /\ proc[t].idx = 3
        /\ Len(proc[t].issued) = 3
        /\ proc[t].err = CommandErr(LoadToRuntime("PROXYSQL SERVERS"), "fail")

\* ---------------------------------------------------------------- C17
\* what an uninterrupted run of a command list makes of the table and its
\* runtime copy: the run ends at the first command the proxy rejects
RECURSIVE RunCommands(_, _)
RunCommands(cmds, st) ==
    IF cmds = <<>> \/ Rejects(Head(cmds), st.mem)
    THEN st
    ELSE RunCommands(Tail(cmds), [mem |-> ApplyMem(Head(cmds), st.mem),
                                  run |-> ApplyRun(Head(cmds), st.mem, st.run)])

\* task t's procedure is a join called right after a completed join of the
\* same member, and no other procedure has run since that first join was called
Repeats(t) ==
    /\ began.last = t
    /\ began.quiet[t]
    /\ began.alone[t]
    /\ proc[t].kind = "join"
    /\ began.prev[t].kind = "join"
    /\ began.prev[t].pod = proc[t].pod
    /\ began.prev[t].outcome = "ok"

RanOut(p) ==
    \/ p.outcome = "ok"
    \/ p.outcome = "failed" /\ Rejects(p.err.cmd, store)

\* t and u ran join for two distinct members, t called first with no other
\* procedure running, u called next, and both have finished
JoinedPair(t, u) ==
    /\ t # u
    /\ began.last = u
    /\ began.before[u] = t
    /\ began.quiet[t]
    /\ proc[t].kind = "join"
    /\ proc[u].kind = "join"
    /\ proc[t].pod.name # proc[u].pod.name
    /\ pc[t] = "idle"
    /\ pc[u] = "idle"
    /\ RanOut(proc[t])
    /\ RanOut(proc[u])

\* C18: for two distinct members A and B, however the commands of join(A) and
\* join(B) interleave (the two serial orders included), the table and the
\* runtime copy end as join(A) followed by join(B) leaves them, and that is
\* what join(B) followed by join(A) leaves.
C18_JoinCommutes ==
    \A t \in ReconTasks, u \in ReconTasks :
        JoinedPair(t, u) =>
            LET st0 == [mem |-> began.mem[t], run |-> began.run[t]]
                ab == RunCommands(proc[u].cmds, RunCommands(proc[t].cmds, st0))
                ba == RunCommands(proc[t].cmds, RunCommands(proc[u].cmds, st0))
            IN /\ [mem |-> store, run |-> runtime] = ab
               /\ ab = ba

\* two primary-role members joined by overlapping procedures, the second
\* called while the first was between its commands
C18_Witness ==
    \E t \in ReconTasks, u \in ReconTasks :
        /\ JoinedPair(t, u)
        /\ ~began.quiet[u]
        /\ proc[t].pod.component = "core"
        /\ proc[u].pod.component = "core"
        /\ proc[t].outcome = "ok"
        /\ proc[u].outcome = "ok"
        /\ Cardinality(store) = 2
        /\ runtime = store

\* ---------------------------------------------------------------- C19
\* the result of a finished RunProbes shows these counts and sentinel
Probed(total, online, draining) ==
    /\ probe.step = "done"
    /\ probe.total = total
    /\ probe.online = online
    /\ probe.draining = draining

\* C19: the probe classification table. total 3, online 3, not draining gives
\* ok; total 3, online 0 gives unhealthy; total 3, online 2, not draining
\* gives ok with the message "some backends offline"; total 3, online 2,
\* draining gives draining.
C19_ClassificationTable ==
    /\ Probed(3, 3, FALSE) => probe.status = "ok"
    /\ Probed(3, 0, FALSE) \/ Probed(3, 0, TRUE) => probe.status = "unhealthy"
    /\ Probed(3, 2, FALSE) =>
          probe.status = "ok" /\ probe.message = "some backends offline"
    /\ Probed(3, 2, TRUE) => probe.status = "draining"

\* ---------------------------------------------------------------- C20
\* C20: the classification applies its rules in the stated order for every
\* input: online equal to total gives ok, also for total 0 and also with the
\* draining sentinel present; only otherwise online 0 gives unhealthy; only
\* otherwise a present sentinel gives draining.
C20_RulesInOrder ==
    probe.step = "done" =>
        IF probe.online = probe.total THEN probe.status = "ok"
        ELSE IF probe.online = 0 THEN probe.status = "unhealthy"
        ELSE probe.draining => probe.status = "draining"

\* ---------------------------------------------------------------- C28
\* a statement that reached the control connection: database/sql sends it
\* unless the context is already done
Executed(arg) ==
    \E i \in 1..Len(shutLog) :
        /\ shutLog[i].step = "exec"
        /\ shutLog[i].arg = arg
        /\ shutLog[i].res \in {"ok", "fail"}

\* C28 (as claimed): the shutdown sequence does the same work when it is
\* triggered by the cancellation of the operating context (SIGTERM): once the
\* sentinel is written and the sequence has returned, PROXYSQL PAUSE and
\* PROXYSQL SHUTDOWN SLOW were executed by the control connection and the
\* drain wait polled the client count at least once before it ended.
C28_SameWorkOnSignal ==
    (once = "done" /\ onceRunner = Main /\ drainFile) =>
        /\ Executed("PROXYSQL PAUSE")
        /\ Executed("PROXYSQL SHUTDOWN SLOW")
        /\ drainChecks >= 1

\* ---------------------------------------------------------------- C29
\* the slow-shutdown command was attempted with this result
SlowResult(res) ==
    \E i \in 1..Len(shutLog) :
        /\ shutLog[i].step = "exec"
        /\ shutLog[i].arg = "PROXYSQL SHUTDOWN SLOW"
        /\ shutLog[i].res = res

C30_TransportOwnBudget ==
    \A i \in 1..Len(shutLog) :
        shutLog[i].step = "httpShutdown" => shutLog[i].res # "ctxerr"

\* ---------------------------------------------------------------- C25
\* the statements a resync cycle is to issue
ExpectedResync ==
    << <<"DELETE FROM proxysql_servers", "">>,
       <<"LOAD PROXYSQL SERVERS FROM CONFIG", "">>,
       <<"LOAD TO RUNTIME", "PROXYSQL SERVERS">> >>

\* C25: a resync cycle of the satellite loop that ran to its end with the
\* phase Running has issued exactly: clear the topology store, reload the
\* server list from the configuration, push to runtime, in that order, when
\* the count of primaries that missed their heartbeat was above zero; a cycle
\* whose count is zero or less issues no command at all.
C25_ResyncCycle ==
    LET p == proc[Main] IN
    p.kind = "resync" =>
        /\ p.missing <= 0 => p.issued = <<>>
        /\ (p.missing > 0 /\ p.outcome = "ok") =>
              Statements(p.issued) = ExpectedResync
        /\ \A i \in 1..Len(p.issued) :
              i <= Len(ExpectedResync) /\ p.issued[i][1] = ExpectedResync[i]

\* C25 witness: a finished cycle that found a missing primary
C25_Witness ==
    /\ proc[Main].kind = "resync"
    /\ proc[Main].missing > 0
    /\ proc[Main].outcome = "ok"
    /\ Len(proc[Main].issued) = 3
    /\ phase = PhaseRunning

\* ---------------------------------------------------------------- C26
\* the callback in hand met a failure: its existence query failed, or a
\* command of its join or leave did, or the cluster port could not be read
CallbackFailed ==
    \/ event.qerr
    \/ proc[Recon].outcome \in {"failed", "porterr"}

\* C26: a failure inside an informer callback ends at the log. The callback
\* has returned (the reconciler is idle again, never crashed or exited); the
\* step that failed changed neither the phase, the connection handle, the
\* Once, the table nor any other task; and the notifications delivered after
\* a failure are handled like any other: the existence query for the own pod,
\* join for Pending to Running, leave for Running to Failed.
C26_CallbackFailureIsLogged ==
    /\ [](/\ CallbackFailed => pc[Recon] = "idle"
          /\ pc[Recon] \in {"idle", "podAddedQuery", "check", "exec"}
          /\ ~event.clean =>
                /\ (event.type = "updated" /\ event.old = "Pending"
                      /\ event.new = "Running") =>
                        /\ proc[Recon].kind = "join"
                        /\ proc[Recon].pod = PodAt(event.pod, event.new)
                /\ (event.type = "updated" /\ event.old = "Running"
                      /\ event.new = "Failed") =>
                        /\ proc[Recon].kind = "leave"
                        /\ proc[Recon].pod = PodAt(event.pod, event.old)
                /\ (event.type = "added" /\ IsSelf(event.pod)
                      /\ pc[Recon] # "podAddedQuery") => event.queried)
    /\ [][(CallbackFailed' /\ ~CallbackFailed) =>
            /\ UNCHANGED <<phase, conn, httpServer, once, onceRunner, ctxCancelled,
                           ret, shutLog, store, runtime, member>>
            /\ \A t \in Tasks \ {Recon} : pc'[t] = pc[t]
            /\ \A t \in ProcTasks \ {Recon} : proc'[t] = proc[t]]_vars

\* C26 witness: after a callback that failed, a later notification ran its
\* join to the end
C26_Witness ==
    /\ ~event.clean
    /\ event.type = "updated"
    /\ proc[Recon].kind = "join"
    /\ proc[Recon].outcome = "ok"
    /\ pc[Recon] = "idle"

\* ---------------------------------------------------------------- C21
\* C21: a RunProbes entered while the phase is not Running sends no statement
\* on the control connection, ends without an error, and its result holds
\* zero for the backends' total, online and shunned counts and for the client
\* count.
C21_ZeroedWhenNotRunning ==
    probe.entered \in ShutdownPhase \ {PhaseRunning} =>
        /\ probe.queries = 0
        /\ probe.step \in {"clients", "draining", "done"}
        /\ probe.total = 0
        /\ probe.online = 0
        /\ probe.shunned = 0
        /\ probe.clients = 0

\* C21 witness: shutdown began between the handler's check and RunProbes, and
\* RunProbes has returned its zeroed result
C21_Witness ==
    /\ probe.step = "done"
    /\ probe.entered = PhaseDraining
    /\ probe.queries = 0
    /\ conn = "open"

\* ---------------------------------------------------------------- C22
\* C22 (as claimed): a liveness request answered while the phase is Draining
\* or Stopping is answered 200, also when shutdown began after the handler's
\* phase check. Stated for the requests none of whose queries failed.
C22_LivenessWhileDraining ==
    (/\ probe.handler = "liveness"
     /\ probe.step \in {"refused", "done"}
     /\ probe.replied \in {PhaseDraining, PhaseStopping}) =>
        probe.code = 200

C24_ProbesOnlyRead ==
    [][probe' # probe => UNCHANGED <<phase, once, onceRunner, conn>>]_vars

\* C24 witness: a ping that passed its check before shutdown began has failed
\* on the handle that shutdown closed in the meantime, and the handle is as
\* shutdown left it
C24_Witness ==
    /\ probe.handler = "startup"
    /\ probe.step = "pinged"
    /\ probe.code = 502
    /\ probe.replied = PhaseStopping
    /\ conn = "closed"

\* ---------------------------------------------------------------- C27
\* the addresses of a batch's inserts, in the batch's order
InsertedIPs == [i \in 1..Len(poll.listed) |-> poll.commands[i + 1][2]]

\* C27: for every list of members, in whatever order it was listed, the batch
\* createCommands builds is: delete all rows; then one insert per member
\* (its address, port 6032, weight 0, its name), the inserts in ascending
\* order of the address as a string; then the six load-to-runtime statements
\* in the fixed order.
C27_FullRebuildBatch ==
    poll.commands # <<>> =>
        LET n == Len(poll.listed) IN
        /\ Len(poll.commands) = n + 7
        /\ poll.commands[1] = <<"DELETE FROM proxysql_servers", "">>
        /\ \E f \in [1..n -> 1..n] :
              /\ \A i, j \in 1..n : f[i] = f[j] => i = j
              /\ \A i \in 1..n :
                    poll.commands[i + 1] =
                        <<"INSERT INTO proxysql_servers VALUES", poll.listed[f[i]].PodIP,
                          6032, 0, poll.listed[f[i]].Hostname>>
        /\ \A i, j \in 1..n : i < j => ~StringLess(InsertedIPs[j], InsertedIPs[i])
        /\ [i \in 1..6 |-> poll.commands[n + 1 + i]] =
              << <<"LOAD TO RUNTIME", "PROXYSQL SERVERS">>,
                 <<"LOAD TO RUNTIME", "ADMIN VARIABLES">>,
                 <<"LOAD TO RUNTIME", "MYSQL VARIABLES">>,
                 <<"LOAD TO RUNTIME", "MYSQL SERVERS">>,
                 <<"LOAD TO RUNTIME", "MYSQL USERS">>,
                 <<"LOAD TO RUNTIME", "MYSQL QUERY RULES">> >>

\* C27 witness: three members listed in descending order of address, and
\* the batch has their inserts in ascending order: 10.0.0.10, 10.0.0.5,
\* 10.0.0.9
C27_Witness ==
    /\ Len(poll.listed) = 3
    /\ [i \in 1..3 |-> poll.listed[i].PodIP] = <<Ip9, Ip5, Ip10>>
    /\ Len(poll.commands) = 10
    /\ InsertedIPs = <<Ip10, Ip5, Ip9>>

\* ---------------------------------------------------------------- C33
\* C33 (as claimed): a readiness request whose probe found no backend online,
\* with the sentinel absent, and was classified unhealthy is answered
\* not-ready (503).
C33_UnhealthyNotReady ==
    (/\ probe.handler = "readiness"
     /\ probe.step = "done"
     /\ ~probe.draining
     /\ probe.total > 0
     /\ probe.online = 0
     /\ probe.status = "unhealthy") =>
        probe.code = 503

\* ---------------------------------------------------------------- C34
\* C34 (as claimed): a failed query or command of a resync cycle does not end
\* the satellite loop: the task is back at its select, where the next tick
\* runs a resync and a cancellation runs the shutdown sequence.
C34_ResyncFailureNotFatal ==
    (/\ mode = "satellite"
     /\ proc[Main].kind = "resync"
     /\ proc[Main].outcome = "failed") =>
        pc[Main] # "exited"

\* ---------------------------------------------------------------- C35
\* the shutdown steps that can fail
FallibleSteps == {"createDrainFile", "exec", "close", "httpShutdown"}

\* C35 (as claimed): the call that ran the shutdown sequence (PreStopShutdown,
\* or Satellite on cancellation) returns an error when a step of the sequence
\* failed, and returns nil only when the sentinel write, the pause command,
\* the slow-shutdown command, the close and the transport stop all succeeded.
C35_FirstErrorReturned ==
    \A t \in ShutTasks :
        (/\ t = onceRunner
         /\ pc[t] = "done"
         /\ ~(t = Main /\ mode = "core")) =>
            (ret[t] = "nil" <=>
                \A i \in 1..Len(shutLog) :
                    shutLog[i].step \in FallibleSteps => shutLog[i].res = "ok")

\* ---------------------------------------------------------------- C36
\* C36 (as claimed): when a command of the batch has failed, the cycle ends
\* with the checksum file not holding the digest of the pods just listed, so
\* that the next cycle finds a different digest and issues the batch again.
C36_WatermarkAfterSuccess ==
    (poll.step = "done" /\ poll.failed) =>
        poll.watermark # calculateChecksum(poll.listed)

\* ---------------------------------------------------------------- C38
\* C38 (as claimed): Ping returns nil, and the startup handler answers 200,
\* only after a ping that was sent on the control connection and succeeded,
\* in every phase and also when the handle is nil.
C38_PingReportsFailure ==
    (probe.handler = "startup" /\ probe.step = "pinged" /\ probe.code = 200) =>
        probe.queries = 1

\* C37: the control-connection handle is absent only in the phases Stopping and
\* Stopped; in Running and in Draining the handle opened by New is present and
\* has not been closed.
C37_HandleAbsentOnlyWhenStopping ==
    /\ conn = "nil" => phase \in {PhaseStopping, PhaseStopped}
    /\ phase \in {PhaseRunning, PhaseDraining} => conn = "open"

\* gracefulShutdown has closed the handle and set it to nil, and the phase is
\* still Stopping
C37_Witness ==
    /\ conn = "nil"
    /\ phase = PhaseStopping
    /\ \E t \in ShutTasks : pc[t] = "httpShutdown"

\* the shutdown sequence has tried to write the draining sentinel or has sent
\* the pause command
SentinelOrPause == Count("createDrainFile") >= 1 \/ PauseCount >= 1

\* task t enters a reconciliation procedure (join, leave or resync) past its
\* entry check in this step
ProcedureStarts(t) ==
    /\ proc[t].outcome # "running"
    /\ proc'[t].outcome = "running"
    /\ proc'[t].issued = <<>>

\* C39: once the shutdown sequence has written the draining sentinel or issued
\* the pause command the phase is not Running, and from then on no
\* reconciliation procedure starts.
C39_DrainingBeforeSentinel ==
    [][/\ SentinelOrPause' => phase' # PhaseRunning
       /\ SentinelOrPause => \A t \in ProcTasks : ~ProcedureStarts(t)]_vars

\* the sentinel is written, the pause command was sent, and a procedure that
\* was entered afterwards has been skipped at its entry check
C39_Witness ==
    /\ drainFile
    /\ Count("createDrainFile") >= 1
    /\ PauseCount >= 1
    /\ phase = PhaseDraining
    /\ \E t \in ProcTasks : proc[t].outcome = "skipped"

\* the positions from which a reconciliation path sends its next statement:
\* a command of join, leave or resync, the count query of the resync, the
\* existence query of podAdded
SendingPositions == {"exec", "queryMissing", "podAddedQuery"}

\* C31 (as claimed): every statement a reconciliation path sends is
\* immediately preceded by a shutdown-phase check on that path, so a task
\* comes to the point of sending a statement only in a step that found the
\* phase Running.
C31_CheckBeforeEveryStatement ==
    [][\A t \in ProcTasks :
          (pc'[t] \in SendingPositions /\ pc[t] # pc'[t]) => ~IsShuttingDown]_vars

\* C32 (as claimed): no task uses the control-connection handle after the
\* shutdown sequence has closed it and set it to nil: a task that sends a
\* statement does not find the handle nil.
C32_NoUseAfterClose ==
    [][\A t \in ProcTasks :
          (pc[t] \in SendingPositions /\ pc'[t] # pc[t]) => conn # "nil"]_vars

====
